---- MODULE Spec2Model ----
(***************************************************************************)
(* A model of ghost-canvas: the document engine (StateManager), the        *)
(* debounced writer (DebouncedWriter), the project lifecycle manager       *)
(* (ProjectManager), the history (GitManager) and the viewer's handling of *)
(* the events it is sent.                                                  *)
(*                                                                         *)
(* Fourteen specifications share the module:                               *)
(*   Spec   the engine's synchronous operations on one loaded project      *)
(*   SpecW  one engine's dirty-set, its writer and its asynchronous saves  *)
(*   SpecP  the project manager's asynchronous switch protocol             *)
(*   SpecR  the calls that publish the full state, a restore among them    *)
(*   SpecH  the writer with save_revision and checkout_version on git      *)
(*   SpecG  the registry of projects: create, switch, delete and rename    *)
(*   SpecF  the engine's operations with save() and the files it writes    *)
(*   SpecT  the debounce timer of one writer                               *)
(*   SpecK  updateTokenWithPropagation on documents with styles and tokens *)
(*   SpecL  delete, move and clone on a project loaded with a small tree   *)
(*   SpecD  the writer with save_revision and get_diff on git              *)
(*   SpecE  the writer on a file system whose writes can fail              *)
(*   SpecN  the registry with createProject and switchProject calls only   *)
(*   SpecS  the screenshot requests, their responses and their timeouts    *)
(* Each specification keeps the variables it does not use at their initial *)
(* values.                                                                 *)
(***************************************************************************)
EXTENDS Integers, Sequences, FiniteSets, TLC

(***************************************************************************)
(* Bounds of the model.                                                    *)
(***************************************************************************)
\* engine calls explored from the default state
MaxOps == 3
\* ids generateId may hand out (page ids and element ids together)
MaxIds == 7
\* mutations the writer's engine accepts (SpecW)
MaxMutations == 2
\* waitForFlush calls (SpecW)
MaxCalls == 1
\* switchProject and createProject calls that get past their guards (SpecP)
MaxSwitches == 1
\* save_revision and checkout_version calls made
MaxHistoryCalls == 3
\* createProject, switchProject, deleteProject and renameProject calls made (SpecG)
MaxProjectCalls == 2
\* requestScreenshot calls made (SpecS)
MaxRequests == 3
\* screenshot:response messages handled (SpecS)
MaxResponses == 4
\* schedule() calls made (SpecT)
MaxSchedules == 3
\* flush() and waitForFlush() calls made (SpecT)
MaxTimerCalls == 2

(***************************************************************************)
(* Values of the program.                                                  *)
(***************************************************************************)
\* parentId: null (a page root)
Null == 0
\* an id, selector or key that resolves to nothing
Unknown == -1
\* an id left undefined by a lookup in clonePage's idMap
Undefined == -2
\* insertIndex: undefined
NoIndex == -99
\* a width or height left out of a setViewport call
NoSize == 0
\* _flushPromise: null
NoSave == 0
\* _deltaHandler: null
NoHandler == -1
\* the listener _initProject attached during projectManager.init()
InitHandler == 0

VARIABLES
  \* ---- engine (StateManager.state and StateManager.dirty) ----
  project,       \* state.project
  pages,         \* state.pages: page id -> page
  elements,      \* state.elements: element id -> element
  styles,        \* state.styles: selector -> (property -> value)
  designTokens,  \* state.designTokens: category -> (key -> value)
  dirty,         \* StateManager.dirty
  nextId,        \* the ids generateId has handed out so far, plus one
  last,          \* the last engine call: its name, outcome and emitted deltas
  nops           \* engine calls made

VARIABLES
  \* ---- writer (DebouncedWriter, StateManager.save and the files) ----
  wmem,          \* per persistence unit, the mutation that last changed its content
  wdisk,         \* per file, the mutation whose content the file holds
  nmut,          \* mutations accepted
  timer,         \* DebouncedWriter._timer: "none", "pending" or "fired"
  flushPromise,  \* DebouncedWriter._flushPromise: a save in flight, or NoSave
  saves,         \* the saves in flight: save id -> its file operations not yet done
  waiters,       \* the waitForFlush calls made: call -> where it stands
  ncalls,        \* waitForFlush calls made
  activeAt       \* per content of project.json, the activePageId it holds

VARIABLES
  \* ---- project manager (ProjectManager, its engines and writers, main) ----
  registry,      \* projectManager.registry: the project ids in order, the active id
  regDisk,       \* the registry as registry.json holds it
  smRef,         \* projectManager.stateManager: an engine, or Null
  writerRef,     \* projectManager.writer: a writer, or Null
  gitRef,        \* projectManager.gitManager: the project whose directory it opens, or Null
  deltaHandler,  \* projectManager._deltaHandler: a listener, or NoHandler
  engs,          \* the StateManager instances constructed so far
  writers,       \* the DebouncedWriter instances constructed so far
  psaves,        \* the saves in flight
  pdisk,         \* project -> the mutation whose content its files hold
  procs,         \* the switchProject calls made: call -> where it stands
  pmut           \* mutations applied to any engine

VARIABLES
  \* ---- history (GitManager on the writer's project directory) ----
  gitIndex,      \* the git index: the tracked files and their staged content
  commits,       \* the commits, oldest first: the files each holds
  hcalls         \* the save_revision and checkout_version calls made

VARIABLES
  \* ---- the registry of projects (ProjectManager, with names and slugs) ----
  greg,          \* this.registry: the projects [id, name, slug] and activeProjectId
  gfile,         \* registry.json
  gdirs,         \* the slugs that have a project directory
  gsm,           \* the project this.stateManager is of, or Null
  gwriter,       \* this.writer is set
  ghandler,      \* this._deltaHandler is set
  gcalls         \* the createProject, switchProject, deleteProject and renameProject calls

VARIABLES
  \* ---- one DebouncedWriter and the timeouts of the event loop (SpecT) ----
  tTimeouts,     \* the timeouts set and neither expired nor cleared
  tTimer,        \* this._timer: Null or the timeout last set
  tScheduled,    \* the setTimeout calls made
  tDirty,        \* stateManager.isDirty()
  tSaves,        \* the save() calls in progress
  tFlushPromise, \* this._flushPromise: NoSave or a save
  tCalls         \* the flush() and waitForFlush() calls

VARIABLES
  \* ---- the screenshot requests of the web server (SpecS) ----
  screenshotRequests, \* the pending map: requestId -> its timeoutId
  shotTimeouts,       \* the timeouts set and neither expired nor cleared
  shotSettled,        \* per request made, the resolve and reject calls on its promise
  shotResponses       \* the screenshot:response messages handled

VARIABLES
  \* ---- the split files of the engine's designs directory (SpecF) ----
  edisk          \* project.json, styles.json and pages/<id>.json

engineVars == <<project, pages, elements, styles, designTokens, nextId, last, nops, edisk>>

writerVars == <<wmem, wdisk, nmut, timer, flushPromise, saves, waiters, ncalls, activeAt>>

pmVars ==
  <<registry, regDisk, smRef, writerRef, gitRef, deltaHandler, engs, writers, psaves,
    pdisk, procs, pmut>>

histVars == <<gitIndex, commits, hcalls>>

regVars == <<greg, gfile, gdirs, gsm, gwriter, ghandler, gcalls>>

timerVars == <<tTimeouts, tTimer, tScheduled, tDirty, tSaves, tFlushPromise, tCalls>>

shotVars == <<screenshotRequests, shotTimeouts, shotSettled, shotResponses>>

vars == <<engineVars, dirty, writerVars, pmVars, histVars, regVars, timerVars, shotVars>>

(***************************************************************************)
(* Strings that code inspects character by character are sequences of      *)
(* one-character strings.                                                  *)
(***************************************************************************)
EmptyMap == [k \in {} |-> <<>>]

Merge(a, b) == [k \in (DOMAIN a) \cup (DOMAIN b) |-> IF k \in DOMAIN b THEN b[k] ELSE a[k]]

Without(f, ks) == [k \in (DOMAIN f) \ ks |-> f[k]]

SetMin(S) == CHOOSE m \in S : \A n \in S : m <= n

\* the elements of the integer set S in increasing order
RECURSIVE SortedSeq(_)
SortedSeq(S) == IF S = {} THEN <<>> ELSE <<SetMin(S)>> \o SortedSeq(S \ {SetMin(S)})

\* Object.keys(obj)[0]: generated ids grow, so insertion order is id order
FirstKey(obj) == SetMin(DOMAIN obj)

SeqRange(s) == {s[i] : i \in 1..Len(s)}

\* Array.prototype.filter(cid => cid !== id)
FilterOut(s, id) == SelectSeq(s, LAMBDA c : c # id)

\* Array.prototype.splice(start, 0, item), or push(item) when the index is undefined
SpliceStart(len, start) ==
  IF start < 0 THEN (IF len + start < 0 THEN 0 ELSE len + start)
  ELSE IF start > len THEN len ELSE start

InsertAt(s, idx, item) ==
  IF idx = NoIndex THEN Append(s, item)
  ELSE LET p == SpliceStart(Len(s), idx)
       IN SubSeq(s, 1, p) \o <<item>> \o SubSeq(s, p + 1, Len(s))

(***************************************************************************)
(* src/state/schema.js createDefaultState, and the input sets of the calls *)
(***************************************************************************)
NullText == "<null>"

Presets ==
  [mobile  |-> [width |-> 375,  height |-> 812],
   tablet  |-> [width |-> 768,  height |-> 1024],
   desktop |-> [width |-> 1440, height |-> 900]]

NoDevice == ""

NewElement(id, tag, classes, attributes, textContent, parentId, pageId) ==
  [id |-> id, tag |-> tag, classes |-> classes, attributes |-> attributes,
   textContent |-> textContent, children |-> <<>>, parentId |-> parentId, pageId |-> pageId]

RootElement(rootId, pageId) ==
  NewElement(rootId, "div", <<"page-root">>, EmptyMap, NullText, Null, pageId)

\* the default page is 'page-1' (id 1), its root 'root-1' (id 2)
DefaultPageId == 1

DefaultRootId == 2

DefaultProject ==
  [name |-> "Untitled Design", activePageId |-> DefaultPageId,
   viewport |-> [device |-> "desktop", width |-> 1440, height |-> 900],
   designType |-> "responsive-web"]

DefaultStyles ==
  (".page-root" :> ("min-height" :> <<"1", "0", "0", "v", "h">>
                    @@ "position" :> <<"r", "e", "l", "a", "t", "i", "v", "e">>))

DefaultTokens == [colors |-> EmptyMap, fonts |-> EmptyMap, spacing |-> EmptyMap]

CleanDirty == [project |-> FALSE, styles |-> FALSE, pages |-> {}, deletedPages |-> {}]

\* decodeUnicodeEscapes on the texts the calls use: "A" decodes to "A"
decodeUnicodeEscapes(str) == IF str = "\\u0041" THEN "A" ELSE str

\* `x || null` of createElement: the empty string and undefined become null
OrNull(str) == IF str = "" THEN NullText ELSE str

Texts == {"", "\\u0041"}

\* insertIndex of createElement: undefined, negative, in range, out of range
InsertIndexes == {NoIndex, -1, 0, 1, MaxIds}

\* insertIndex of moveElement
MoveIndexes == {NoIndex, 0}

\* the optional fields of an updateElement call
Updates ==
  { [tag |-> "img", classes |-> <<"hero">>],
    [attributes |-> [src |-> "a.png"]],
    [attributes |-> [alt |-> "x"], textContent |-> "\\u0041"] }

LeafDef == [tag |-> "li", children |-> <<>>]

ElementDefs == { <<>>, <<[tag |-> "ul", children |-> <<LeafDef>>]>> }

PageNames == {"About"}

Selectors == {".hero", ".page-root"}

StyleValues == { <<"#", "f">>, <<"#", "f", "f">> }

TokenValues == { <<"#", "f">>, <<"#", "0">> }

StyleProps == { [color |-> v] : v \in StyleValues }

StyleBatches ==
  { <<>>,
    <<[selector |-> ".hero", properties |-> [color |-> <<"#", "f">>]],
      [selector |-> ".hero", properties |-> [background |-> <<"#", "f", "f">>]]>> }

TokenCategories == {"colors"}

TokenKeys == {"bg"}

DesignTypes == {"responsive-web", "mobile-app"}

ViewportCalls ==
  { [device |-> "mobile", width |-> NoSize, height |-> NoSize],
    [device |-> NoDevice, width |-> 500, height |-> NoSize] }

(***************************************************************************)
(* The split files: what save() and _writeSplitFiles write of a state and  *)
(* what _loadSplitFiles reads back.                                        *)
(***************************************************************************)
\* { ...project, designTokens }: the content of project.json
ProjectData(proj, tokens) == [k \in {"designTokens"} |-> tokens] @@ proj

\* JSON.stringify of an object: a property whose value is undefined is left out
\* (parentId and rootId are the properties clonePage may leave undefined)
Stringify(rec) ==
  [k \in {f \in DOMAIN rec : ~(f \in {"parentId", "rootId"} /\ rec[f] = Undefined)} |-> rec[k]]

\* the elements of a page file: those whose pageId is the page
PageElements(els, pageId) ==
  [id \in {e \in DOMAIN els : els[e].pageId = pageId} |-> Stringify(els[id])]

\* { ...page, elements: pageElements }: the content of pages/<pageId>.json
PageData(pgs, els, pageId) ==
  [k \in {"elements"} |-> PageElements(els, pageId)] @@ Stringify(pgs[pageId])

\* the files _writeSplitFiles writes of a whole state
WriteSplitFiles(proj, pgs, els, st, tokens) ==
  [project |-> ProjectData(proj, tokens),
   styles |-> st,
   pages |-> [p \in DOMAIN pgs |-> PageData(pgs, els, p)]]

\* z.object(...).parse: the keys the schema does not name are stripped
Strip(rec, keys) == [k \in (DOMAIN rec) \cap keys |-> rec[k]]

ProjectKeys == {"name", "activePageId", "viewport", "designType"}

PageKeys == {"id", "name", "rootId", "styles"}

ElementKeys ==
  {"id", "tag", "classes", "attributes", "textContent", "children", "parentId", "pageId"}

TokenKeysOfSchema == {"colors", "fonts", "spacing"}

\* ElementSchema.parse: parentId defaults to null
ParseElement(el) ==
  Strip(el, ElementKeys) @@ [k \in {"parentId"} |-> Null]

\* PageSchema needs a rootId: a page file without one makes the parse throw
Parses(disk) == \A f \in DOMAIN disk.pages : "rootId" \in DOMAIN disk.pages[f]

\* the orders readdir may list a set of files in
RECURSIVE Orders(_)
Orders(S) ==
  IF S = {} THEN { <<>> }
  ELSE UNION { { <<f>> \o rest : rest \in Orders(S \ {f}) } : f \in S }

\* the loop of _loadSplitFiles over the page files read, in the order listed:
\* pages[page.id] = page and Object.assign(elements, pageElements)
RECURSIVE LoadPages(_, _, _, _)
LoadPages(files, order, pgs, els) ==
  IF order = <<>> THEN [pages |-> pgs, elements |-> els]
  ELSE LET pageData == files[Head(order)]
           page == [k \in (DOMAIN pageData) \ {"elements"} |-> pageData[k]]
       IN LoadPages(files, Tail(order),
                    (page.id :> Strip(page, PageKeys)) @@ pgs,
                    [id \in DOMAIN pageData.elements |->
                       ParseElement(pageData.elements[id])] @@ els)

\* the state _loadSplitFiles parses of the files, the pages listed in `order`
LoadSplitFiles(disk, order) ==
  LET projectData == disk.project
      loaded == LoadPages(disk.pages, order, EmptyMap, EmptyMap)
  IN IF ~Parses(disk) THEN [error |-> "ZodError"] ELSE
     [project |-> Strip([k \in (DOMAIN projectData) \ {"designTokens"} |-> projectData[k]],
                        ProjectKeys),
      pages |-> loaded.pages,
      elements |-> loaded.elements,
      styles |-> disk.styles,
      designTokens |-> Strip(projectData.designTokens, TokenKeysOfSchema)]

(***************************************************************************)
(* The engine: StateManager's operations.  A call that throws leaves       *)
(* `last` with the error and no delta; what it changed before the throw    *)
(* stays changed.                                                          *)
(***************************************************************************)
EngineInit ==
  /\ project = DefaultProject
  /\ pages = (DefaultPageId :> [id |-> DefaultPageId, name |-> "Home", rootId |-> DefaultRootId,
                               styles |-> EmptyMap])
  /\ elements = (DefaultRootId :> RootElement(DefaultRootId, DefaultPageId))
  /\ styles = DefaultStyles
  /\ designTokens = DefaultTokens
  /\ dirty = CleanDirty
  /\ nextId = 3
  /\ last = [op |-> "init", result |-> "ok", deltas |-> <<>>]
  /\ nops = 0
  /\ edisk = WriteSplitFiles(DefaultProject,
                             (DefaultPageId :> [id |-> DefaultPageId, name |-> "Home",
                                                rootId |-> DefaultRootId, styles |-> EmptyMap]),
                             (DefaultRootId :> RootElement(DefaultRootId, DefaultPageId)),
                             DefaultStyles, DefaultTokens)

\* one more engine call
Tick ==
  /\ nops < MaxOps
  /\ nops' = nops + 1
  /\ UNCHANGED <<edisk, writerVars, pmVars, histVars, regVars, timerVars, shotVars>>

Delta(type, data) == [type |-> type, data |-> data]

\* a return that forgot to emit
ReturnsWithoutEmit(op, deltas) == last' = [op |-> op, result |-> "ok", deltas |-> <<>>]

Returns(op, deltas) == last' = [op |-> op, result |-> "ok", deltas |-> deltas]

\* a throw before anything was assigned
Throws(op, error) ==
  /\ last' = [op |-> op, result |-> error, deltas |-> <<>>]
  /\ UNCHANGED <<project, pages, elements, styles, designTokens, dirty, nextId>>

DirtyPage(d, pageId) == [d EXCEPT !.pages = @ \cup {pageId}]

getStateSnapshot(p, pg, els, st, tk) ==
  [project |-> p, pages |-> pg, elements |-> els, styles |-> st, designTokens |-> tk]

(***************************************************************************)
(* Element operations                                                      *)
(***************************************************************************)
createElement(tag, parentId, textContent, insertIndex) ==
  /\ Tick
  /\ IF parentId \notin DOMAIN elements THEN Throws("createElement", "NotFound")
     ELSE /\ nextId <= MaxIds
          /\ LET id == nextId
                 parent == elements[parentId]
                 element == NewElement(id, tag, <<>>, EmptyMap,
                                       OrNull(decodeUnicodeEscapes(textContent)),
                                       parentId, parent.pageId)
             IN /\ elements' = [(elements @@ (id :> element))
                                  EXCEPT ![parentId].children = InsertAt(@, insertIndex, id)]
                /\ nextId' = id + 1
                /\ dirty' = DirtyPage(dirty, parent.pageId)
                /\ Returns("createElement",
                     <<Delta("delta:element:created",
                             [element |-> element, parentId |-> parentId,
                              insertIndex |-> insertIndex])>>)
          /\ UNCHANGED <<project, pages, styles, designTokens>>

\* the fields an updateElement call assigns; attributes are merged
ApplyUpdate(element, upd) ==
  [f \in DOMAIN element |->
     IF f \notin DOMAIN upd THEN element[f]
     ELSE IF f = "attributes" THEN Merge(element.attributes, upd.attributes)
     ELSE IF f = "textContent" THEN decodeUnicodeEscapes(upd.textContent)
     ELSE upd[f]]

updateElement(id, upd) ==
  /\ Tick
  /\ IF id \notin DOMAIN elements THEN Throws("updateElement", "NotFound")
     ELSE LET element == ApplyUpdate(elements[id], upd)
              changes == [f \in DOMAIN upd |-> element[f]]
          IN /\ elements' = [elements EXCEPT ![id] = element]
             /\ dirty' = DirtyPage(dirty, element.pageId)
             /\ Returns("updateElement",
                  <<Delta("delta:element:updated", [id |-> id, changes |-> changes])>>)
             /\ UNCHANGED <<project, pages, styles, designTokens, nextId>>

\* _deleteRecursive(id) with `stack` the ids of the calls in progress.  The
\* element is deleted after its children, so a call for an id already on the
\* stack repeats its caller's walk without end: the call stack overflows
\* (RangeError) and nothing more is deleted.
RECURSIVE DeleteRecursive(_, _, _)
RECURSIVE DeleteChildren(_, _, _, _)
DeleteRecursive(els, id, stack) ==
  IF id \notin DOMAIN els THEN [els |-> els, overflow |-> FALSE]
  ELSE IF id \in stack THEN [els |-> els, overflow |-> TRUE]
  ELSE LET r == DeleteChildren(els, els[id].children, 1, stack \cup {id})
       IN IF r.overflow THEN r
          ELSE [els |-> Without(r.els, {id}), overflow |-> FALSE]

DeleteChildren(els, kids, i, stack) ==
  IF i > Len(kids) THEN [els |-> els, overflow |-> FALSE]
  ELSE LET r == DeleteRecursive(els, kids[i], stack)
       IN IF r.overflow THEN r ELSE DeleteChildren(r.els, kids, i + 1, stack)

\* listElements' buildTree(elementId) ends: it builds the tree of every child,
\* so a call for an id already on the stack recurses without end
RECURSIVE buildTreeEnds(_, _, _)
buildTreeEnds(els, elementId, stack) ==
  IF elementId \notin DOMAIN els THEN TRUE
  ELSE IF elementId \in stack THEN FALSE
  ELSE \A i \in 1..Len(els[elementId].children) :
         buildTreeEnds(els, els[elementId].children[i], stack \cup {elementId})

\* a delete that takes a page root like any other element
deleteElementAnyNode(id) ==
  /\ Tick
  /\ IF id \notin DOMAIN elements THEN Throws("deleteElement", "NotFound")
     ELSE LET parentId == elements[id].parentId
              pageId == elements[id].pageId
              r == DeleteRecursive(elements, id, {})
          IN /\ IF r.overflow
                THEN /\ elements' = r.els
                     /\ dirty' = dirty
                     /\ last' = [op |-> "deleteElement", result |-> "RangeError",
                                 deltas |-> <<>>]
                ELSE /\ elements' =
                          IF parentId \in DOMAIN r.els
                          THEN [r.els EXCEPT ![parentId].children = FilterOut(@, id)]
                          ELSE r.els
                     /\ dirty' = DirtyPage(dirty, pageId)
                     /\ Returns("deleteElement",
                          <<Delta("delta:element:deleted",
                                  [id |-> id, parentId |-> parentId])>>)
             /\ UNCHANGED <<project, pages, styles, designTokens, nextId>>

deleteElement(id) ==
  /\ Tick
  /\ IF id \notin DOMAIN elements THEN Throws("deleteElement", "NotFound")
     ELSE IF elements[id].parentId = Null THEN Throws("deleteElement", "InvalidOperation")
     ELSE LET parentId == elements[id].parentId
              pageId == elements[id].pageId
              r == DeleteRecursive(elements, id, {})
          IN /\ IF r.overflow
                THEN /\ elements' = r.els
                     /\ dirty' = dirty
                     /\ last' = [op |-> "deleteElement", result |-> "RangeError",
                                 deltas |-> <<>>]
                ELSE /\ elements' =
                          IF parentId \in DOMAIN r.els
                          THEN [r.els EXCEPT ![parentId].children = FilterOut(@, id)]
                          ELSE r.els
                     /\ dirty' = DirtyPage(dirty, pageId)
                     /\ Returns("deleteElement",
                          <<Delta("delta:element:deleted",
                                  [id |-> id, parentId |-> parentId])>>)
             /\ UNCHANGED <<project, pages, styles, designTokens, nextId>>

\* a re-stamp that stops at the moved element
UpdatePageIdShallow(els, id, pageId, stack) ==
  IF id \notin DOMAIN els THEN [els |-> els, overflow |-> FALSE]
  ELSE [els |-> [els EXCEPT ![id].pageId = pageId], overflow |-> FALSE]

\* _updatePageId(id, pageId), with the same account of the call stack
RECURSIVE UpdatePageId(_, _, _, _)
RECURSIVE UpdateChildrenPageId(_, _, _, _, _)
UpdatePageId(els, id, pageId, stack) ==
  IF id \notin DOMAIN els THEN [els |-> els, overflow |-> FALSE]
  ELSE IF id \in stack THEN [els |-> els, overflow |-> TRUE]
  ELSE LET els1 == [els EXCEPT ![id].pageId = pageId]
       IN UpdateChildrenPageId(els1, els1[id].children, 1, pageId, stack \cup {id})

UpdateChildrenPageId(els, kids, i, pageId, stack) ==
  IF i > Len(kids) THEN [els |-> els, overflow |-> FALSE]
  ELSE LET r == UpdatePageId(els, kids[i], pageId, stack)
       IN IF r.overflow THEN r ELSE UpdateChildrenPageId(r.els, kids, i + 1, pageId, stack)

\* moveElement's relinking: out of the old parent's children, parentId set,
\* into the new parent's children
Relink(els, id, newParentId, insertIndex) ==
  LET oldParentId == els[id].parentId
      els1 == IF oldParentId \in DOMAIN els
              THEN [els EXCEPT ![oldParentId].children = FilterOut(@, id)]
              ELSE els
      els2 == [els1 EXCEPT ![id].parentId = newParentId]
  IN [els2 EXCEPT ![newParentId].children = InsertAt(@, insertIndex, id)]

\* moveElement looking the new parent up only after the element has left
\* its old one
moveElementLateCheck(id, newParentId, insertIndex) ==
  /\ Tick
  /\ IF id \notin DOMAIN elements THEN Throws("moveElement", "NotFound")
     ELSE IF elements[id].parentId = Null THEN Throws("moveElement", "InvalidOperation")
     ELSE LET oldParentId == elements[id].parentId
              unlinked == IF oldParentId \in DOMAIN elements
                          THEN [elements EXCEPT ![oldParentId].children = FilterOut(@, id)]
                          ELSE elements
          IN IF newParentId \notin DOMAIN elements
             THEN /\ elements' = unlinked
                  /\ last' = [op |-> "moveElement", result |-> "NotFound", deltas |-> <<>>]
                  /\ UNCHANGED <<project, pages, styles, designTokens, dirty, nextId>>
             ELSE /\ elements' = Relink(elements, id, newParentId, insertIndex)
                  /\ dirty' = DirtyPage(dirty, elements[id].pageId)
                  /\ Returns("moveElement",
                       <<Delta("delta:element:moved",
                               [id |-> id, oldParentId |-> oldParentId,
                                newParentId |-> newParentId,
                                insertIndex |-> insertIndex])>>)
                  /\ UNCHANGED <<project, pages, styles, designTokens, nextId>>

\* moveElement marking only the page the element arrives on
moveElementNewPageOnly(id, newParentId, insertIndex) ==
  /\ Tick
  /\ IF id \notin DOMAIN elements THEN Throws("moveElement", "NotFound")
     ELSE IF elements[id].parentId = Null THEN Throws("moveElement", "InvalidOperation")
     ELSE IF newParentId \notin DOMAIN elements THEN Throws("moveElement", "NotFound")
     ELSE LET oldParentId == elements[id].parentId
              oldPageId == elements[id].pageId
              newPageId == elements[newParentId].pageId
              linked == Relink(elements, id, newParentId, insertIndex)
              r == IF oldPageId # newPageId
                   THEN UpdatePageId(linked, id, newPageId, {})
                   ELSE [els |-> linked, overflow |-> FALSE]
          IN /\ elements' = r.els
             /\ IF r.overflow
                THEN /\ dirty' = dirty
                     /\ last' = [op |-> "moveElement", result |-> "RangeError",
                                 deltas |-> <<>>]
                ELSE /\ dirty' = DirtyPage(dirty, newPageId)
                     /\ Returns("moveElement",
                          <<Delta("delta:element:moved",
                                  [id |-> id, oldParentId |-> oldParentId,
                                   newParentId |-> newParentId,
                                   insertIndex |-> insertIndex])>>)
             /\ UNCHANGED <<project, pages, styles, designTokens, nextId>>

moveElement(id, newParentId, insertIndex) ==
  /\ Tick
  /\ IF id \notin DOMAIN elements THEN Throws("moveElement", "NotFound")
     ELSE IF elements[id].parentId = Null THEN Throws("moveElement", "InvalidOperation")
     ELSE IF newParentId \notin DOMAIN elements THEN Throws("moveElement", "NotFound")
     ELSE LET oldParentId == elements[id].parentId
              oldPageId == elements[id].pageId
              newPageId == elements[newParentId].pageId
              linked == Relink(elements, id, newParentId, insertIndex)
              r == IF oldPageId # newPageId
                   THEN UpdatePageId(linked, id, newPageId, {})
                   ELSE [els |-> linked, overflow |-> FALSE]
          IN /\ elements' = r.els
             /\ IF r.overflow
                THEN /\ dirty' = dirty
                     /\ last' = [op |-> "moveElement", result |-> "RangeError",
                                 deltas |-> <<>>]
                ELSE /\ dirty' = DirtyPage(DirtyPage(dirty, oldPageId), newPageId)
                     /\ Returns("moveElement",
                          <<Delta("delta:element:moved",
                                  [id |-> id, oldParentId |-> oldParentId,
                                   newParentId |-> newParentId,
                                   insertIndex |-> insertIndex])>>)
             /\ UNCHANGED <<project, pages, styles, designTokens, nextId>>

\* createElementTree's createRecursive over defs[i..]; st = [els, next, count]
RECURSIVE createRecursive(_, _, _, _, _, _)
createRecursive(st, pid, defs, i, pageId, ids) ==
  IF i > Len(defs) THEN [els |-> st.els, next |-> st.next, count |-> st.count, ids |-> ids]
  ELSE LET id == st.next
           def == defs[i]
           element == NewElement(id, def.tag, <<>>, EmptyMap, NullText, pid, pageId)
           els1 == [(st.els @@ (id :> element)) EXCEPT ![pid].children = Append(@, id)]
           st1 == [els |-> els1, next |-> id + 1, count |-> st.count + 1]
           sub == IF Len(def.children) > 0
                  THEN createRecursive(st1, id, def.children, 1, pageId, <<>>)
                  ELSE st1
           st2 == [els |-> sub.els, next |-> sub.next, count |-> sub.count]
       IN createRecursive(st2, pid, defs, i + 1, pageId, Append(ids, id))

createElementTree(parentId, defs) ==
  /\ Tick
  /\ IF parentId \notin DOMAIN elements THEN Throws("createElementTree", "NotFound")
     ELSE LET pageId == elements[parentId].pageId
              r == createRecursive([els |-> elements, next |-> nextId, count |-> 0],
                                   parentId, defs, 1, pageId, <<>>)
          IN /\ r.next <= MaxIds + 1
             /\ elements' = r.els
             /\ nextId' = r.next
             /\ dirty' = DirtyPage(dirty, pageId)
             /\ Returns("createElementTree",
                  <<Delta("design:full",
                          getStateSnapshot(project, pages, r.els, styles, designTokens))>>)
             /\ UNCHANGED <<project, pages, styles, designTokens>>

(***************************************************************************)
(* Page operations                                                         *)
(***************************************************************************)
createPage(name) ==
  /\ Tick
  /\ nextId + 1 <= MaxIds
  /\ LET pageId == nextId
         rootId == nextId + 1
         page == [id |-> pageId, name |-> name, rootId |-> rootId, styles |-> EmptyMap]
         rootElement == RootElement(rootId, pageId)
     IN /\ pages' = (pages @@ (pageId :> page))
        /\ elements' = (elements @@ (rootId :> rootElement))
        /\ nextId' = nextId + 2
        /\ dirty' = DirtyPage(dirty, pageId)
        /\ Returns("createPage",
             <<Delta("delta:page:created", [page |-> page, rootElement |-> rootElement])>>)
  /\ UNCHANGED <<project, styles, designTokens>>

\* the ids of the elements stamped with pageId
PageElementIds(els, pageId) == {id \in DOMAIN els : els[id].pageId = pageId}

\* clonePage's idMap: a fresh id per source element, in the order of
\* Object.entries(elements), after the id of the new page
IdMap(srcIds, firstId) ==
  LET order == SortedSeq(srcIds)
  IN [id \in srcIds |-> firstId + (CHOOSE i \in 1..Len(order) : order[i] = id) - 1]

MapIds(s, idMap) ==
  LET known == SelectSeq(s, LAMBDA c : c \in DOMAIN idMap)
  IN [i \in 1..Len(known) |-> idMap[known[i]]]

ClonedElement(src, idMap, pageId) ==
  [src EXCEPT !.id = idMap[src.id],
              !.parentId = IF src.parentId = Null THEN Null
                           ELSE IF src.parentId \in DOMAIN idMap THEN idMap[src.parentId]
                           ELSE Undefined,
              !.children = MapIds(src.children, idMap),
              !.pageId = pageId]

clonePage(sourcePageId, newName) ==
  /\ Tick
  /\ IF sourcePageId \notin DOMAIN pages THEN Throws("clonePage", "NotFound")
     ELSE LET pageId == nextId
              srcIds == PageElementIds(elements, sourcePageId)
              idMap == IdMap(srcIds, nextId + 1)
              clones == [n \in {idMap[id] : id \in srcIds} |->
                           ClonedElement(elements[CHOOSE id \in srcIds : idMap[id] = n],
                                         idMap, pageId)]
              srcRoot == pages[sourcePageId].rootId
              rootId == IF srcRoot \in srcIds THEN idMap[srcRoot] ELSE Undefined
              page == [id |-> pageId, name |-> newName, rootId |-> rootId,
                       styles |-> pages[sourcePageId].styles]
          IN /\ nextId + Cardinality(srcIds) <= MaxIds
             /\ elements' = (elements @@ clones)
             /\ pages' = (pages @@ (pageId :> page))
             /\ nextId' = nextId + 1 + Cardinality(srcIds)
             /\ dirty' = DirtyPage(dirty, pageId)
             /\ Returns("clonePage",
                  <<Delta("design:full",
                          getStateSnapshot(project, pages', elements', styles, designTokens))>>)
             /\ UNCHANGED <<project, styles, designTokens>>

deletePage(pageId) ==
  /\ Tick
  /\ IF pageId \notin DOMAIN pages THEN Throws("deletePage", "NotFound")
     ELSE IF Cardinality(DOMAIN pages) <= 1 THEN Throws("deletePage", "InvalidOperation")
     ELSE LET remaining == Without(pages, {pageId})
              wasActive == project.activePageId = pageId
              newActivePageId == IF wasActive THEN FirstKey(remaining) ELSE Null
          IN /\ elements' = Without(elements, PageElementIds(elements, pageId))
             /\ pages' = remaining
             /\ project' = IF wasActive
                           THEN [project EXCEPT !.activePageId = newActivePageId]
                           ELSE project
             /\ dirty' = [dirty EXCEPT !.project = @ \/ wasActive,
                                       !.deletedPages = @ \cup {pageId}]
             /\ Returns("deletePage",
                  <<Delta("delta:page:deleted",
                          [pageId |-> pageId, newActivePageId |-> newActivePageId])>>)
             /\ UNCHANGED <<styles, designTokens, nextId>>

renamePage(pageId, name) ==
  /\ Tick
  /\ IF pageId \notin DOMAIN pages THEN Throws("renamePage", "NotFound")
     ELSE /\ pages' = [pages EXCEPT ![pageId].name = name]
          /\ dirty' = DirtyPage(dirty, pageId)
          /\ Returns("renamePage",
               <<Delta("delta:page:renamed", [pageId |-> pageId, name |-> name])>>)
          /\ UNCHANGED <<project, elements, styles, designTokens, nextId>>

setActivePage(pageId) ==
  /\ Tick
  /\ IF pageId \notin DOMAIN pages THEN Throws("setActivePage", "NotFound")
     ELSE /\ project' = [project EXCEPT !.activePageId = pageId]
          /\ dirty' = [dirty EXCEPT !.project = TRUE]
          /\ Returns("setActivePage", <<Delta("delta:page:activated", [pageId |-> pageId])>>)
          /\ UNCHANGED <<pages, elements, styles, designTokens, nextId>>

(***************************************************************************)
(* Style operations                                                        *)
(***************************************************************************)
\* styles[selector] = { ...(styles[selector] || {}), ...properties }
MergeRule(st, selector, properties) ==
  LET old == IF selector \in DOMAIN st THEN st[selector] ELSE EmptyMap
  IN ((selector :> Merge(old, properties)) @@ st)

setStyles(selector, properties) ==
  /\ Tick
  /\ styles' = MergeRule(styles, selector, properties)
  /\ dirty' = [dirty EXCEPT !.styles = TRUE]
  /\ Returns("setStyles",
       <<Delta("delta:styles:set",
               [selector |-> selector, properties |-> styles'[selector]])>>)
  /\ UNCHANGED <<project, pages, elements, designTokens, nextId>>

RECURSIVE MergeBatch(_, _, _)
MergeBatch(st, batch, i) ==
  IF i > Len(batch) THEN st
  ELSE MergeBatch(MergeRule(st, batch[i].selector, batch[i].properties), batch, i + 1)

batchSetStyles(batch) ==
  /\ Tick
  /\ styles' = MergeBatch(styles, batch, 1)
  /\ dirty' = [dirty EXCEPT !.styles = TRUE]
  /\ Returns("batchSetStyles",
       <<Delta("delta:styles:batch",
               [styles |-> [sel \in {batch[i].selector : i \in 1..Len(batch)} |->
                              styles'[sel]]])>>)
  /\ UNCHANGED <<project, pages, elements, designTokens, nextId>>

deleteStyles(selector) ==
  /\ Tick
  /\ IF selector \notin DOMAIN styles THEN Throws("deleteStyles", "NotFound")
     ELSE /\ styles' = Without(styles, {selector})
          /\ dirty' = [dirty EXCEPT !.styles = TRUE]
          /\ Returns("deleteStyles",
               <<Delta("delta:styles:deleted", [selector |-> selector])>>)
          /\ UNCHANGED <<project, pages, elements, designTokens, nextId>>

(***************************************************************************)
(* Design token operations                                                 *)
(***************************************************************************)
setDesignTokens(category, tokens) ==
  /\ Tick
  /\ LET old == IF category \in DOMAIN designTokens THEN designTokens[category] ELSE EmptyMap
     IN designTokens' = ((category :> Merge(old, tokens)) @@ designTokens)
  /\ dirty' = [dirty EXCEPT !.project = TRUE]
  /\ Returns("setDesignTokens",
       <<Delta("delta:tokens:set",
               [category |-> category, tokens |-> designTokens'[category]])>>)
  /\ UNCHANGED <<project, pages, elements, styles, nextId>>

\* [a-zA-Z0-9] among the characters the model's values use
Alnum == {"f", "0", "1", "v", "h", "r", "e", "l", "a", "t", "i"}

\* a regex of the old value alone, without the lookbehind and the lookahead
MatchAtSubstring(val, old, j) ==
  /\ j + Len(old) - 1 <= Len(val)
  /\ SubSeq(val, j, j + Len(old) - 1) = old

\* the regex (?<![a-zA-Z0-9#])old(?![a-zA-Z0-9]) matches val at position j
MatchAt(val, old, j) ==
  /\ j + Len(old) - 1 <= Len(val)
  /\ SubSeq(val, j, j + Len(old) - 1) = old
  /\ (j = 1 \/ val[j - 1] \notin Alnum \cup {"#"})
  /\ (j + Len(old) > Len(val) \/ val[j + Len(old)] \notin Alnum)

\* regex.test(val)
Test(val, old) == \E j \in 1..(Len(val) + 1) : MatchAt(val, old, j)

\* the text String.prototype.replace puts in place of a match when it is
\* given a replacement string: $$ stands for $, $& for the match, $` for the
\* text before it and $' for the text after it ($n stays as it is: the regex
\* has no capture group)
RECURSIVE GetSubstitution(_, _, _, _)
GetSubstitution(replacement, matched, before, after) ==
  IF replacement = <<>> THEN <<>>
  ELSE IF Len(replacement) >= 2 /\ replacement[1] = "$"
          /\ replacement[2] \in {"$", "&", "`", "'"}
       THEN (CASE replacement[2] = "$" -> <<"$">>
               [] replacement[2] = "&" -> matched
               [] replacement[2] = "`" -> before
               [] replacement[2] = "'" -> after)
            \o GetSubstitution(SubSeq(replacement, 3, Len(replacement)), matched, before, after)
       ELSE <<replacement[1]>> \o GetSubstitution(Tail(replacement), matched, before, after)

\* val.replace(regex, new) with the g flag, scanning from position j: after
\* a match the scan resumes behind it, one character further on for an
\* empty match
RECURSIVE ReplaceFrom(_, _, _, _)
ReplaceFrom(val, old, new, j) ==
  IF j > Len(val) + 1 THEN <<>>
  ELSE LET rest == IF j <= Len(val) THEN <<val[j]>> \o ReplaceFrom(val, old, new, j + 1)
                   ELSE <<>>
           put == GetSubstitution(new, old, SubSeq(val, 1, j - 1),
                                  SubSeq(val, j + Len(old), Len(val)))
       IN IF ~MatchAt(val, old, j) THEN rest
          ELSE IF Len(old) = 0 THEN put \o rest
          ELSE put \o ReplaceFrom(val, old, new, j + Len(old))

Replace(val, old, new) == IF Test(val, old) THEN ReplaceFrom(val, old, new, 1) ELSE val

PropagateRule(props, old, new) == [p \in DOMAIN props |-> Replace(props[p], old, new)]

\* the selectors of which a property value matches the regex
ChangedSelectors(st, old) ==
  {sel \in DOMAIN st : \E p \in DOMAIN st[sel] : Test(st[sel][p], old)}

\* updateTokenWithPropagation without the return on oldValue === newValue
updateTokenWithPropagationAlways(category, key, newValue) ==
  /\ Tick
  /\ IF category \notin DOMAIN designTokens \/ key \notin DOMAIN designTokens[category]
     THEN Throws("updateTokenWithPropagation", "NotFound")
     ELSE LET oldValue == designTokens[category][key]
              changed == ChangedSelectors(styles, oldValue)
              tokens == [designTokens[category] EXCEPT ![key] = newValue]
          IN /\ styles' = [sel \in DOMAIN styles |->
                             PropagateRule(styles[sel], oldValue, newValue)]
             /\ designTokens' = [designTokens EXCEPT ![category] = tokens]
             /\ dirty' = [dirty EXCEPT !.project = TRUE,
                                       !.styles = @ \/ (changed # {})]
             /\ last' = [op |-> "updateTokenWithPropagation", result |-> "ok",
                         deltas |->
                           <<Delta("delta:tokens:set",
                                   [category |-> category, tokens |-> tokens])>>
                           \o (IF changed = {} THEN <<>>
                               ELSE <<Delta("delta:styles:batch",
                                            [styles |-> [sel \in changed |->
                                                           styles'[sel]]])>>),
                         updatedStyles |-> Cardinality(changed)]
             /\ UNCHANGED <<project, pages, elements, nextId>>

updateTokenWithPropagation(category, key, newValue) ==
  /\ Tick
  /\ IF category \notin DOMAIN designTokens \/ key \notin DOMAIN designTokens[category]
     THEN Throws("updateTokenWithPropagation", "NotFound")
     ELSE LET oldValue == designTokens[category][key]
              changed == ChangedSelectors(styles, oldValue)
              tokens == [designTokens[category] EXCEPT ![key] = newValue]
          IN IF oldValue = newValue
             THEN /\ last' = [op |-> "updateTokenWithPropagation", result |-> "ok",
                              deltas |-> <<>>, updatedStyles |-> 0]
                  /\ UNCHANGED <<project, pages, elements, styles, designTokens, dirty, nextId>>
             ELSE /\ styles' = [sel \in DOMAIN styles |->
                                  PropagateRule(styles[sel], oldValue, newValue)]
                  /\ designTokens' = [designTokens EXCEPT ![category] = tokens]
                  /\ dirty' = [dirty EXCEPT !.project = TRUE,
                                            !.styles = @ \/ (changed # {})]
                  /\ last' = [op |-> "updateTokenWithPropagation", result |-> "ok",
                              deltas |->
                                <<Delta("delta:tokens:set",
                                        [category |-> category, tokens |-> tokens])>>
                                \o (IF changed = {} THEN <<>>
                                    ELSE <<Delta("delta:styles:batch",
                                                 [styles |-> [sel \in changed |->
                                                                styles'[sel]]])>>),
                              updatedStyles |-> Cardinality(changed)]
                  /\ UNCHANGED <<project, pages, elements, nextId>>

(***************************************************************************)
(* Design type and viewport                                                *)
(***************************************************************************)
setDesignType(designType) ==
  /\ Tick
  /\ project' = [project EXCEPT !.designType = designType]
  /\ dirty' = [dirty EXCEPT !.project = TRUE]
  /\ Returns("setDesignType",
       <<Delta("delta:project:designType", [designType |-> designType])>>)
  /\ UNCHANGED <<pages, elements, styles, designTokens, nextId>>

\* `a || b` on sizes: 0 and undefined are both falsy
OrSize(a, b) == IF a = NoSize THEN b ELSE a

setViewport(call) ==
  /\ Tick
  /\ LET viewport ==
           IF call.device # NoDevice /\ call.device \in DOMAIN Presets
           THEN [device |-> call.device,
                 width  |-> OrSize(call.width, Presets[call.device].width),
                 height |-> OrSize(call.height, Presets[call.device].height)]
           ELSE [device |-> IF call.device = NoDevice THEN "custom" ELSE call.device,
                 width  |-> OrSize(call.width, project.viewport.width),
                 height |-> OrSize(call.height, project.viewport.height)]
     IN /\ project' = [project EXCEPT !.viewport = viewport]
        /\ Returns("setViewport", <<Delta("delta:viewport:set", [viewport |-> viewport])>>)
  /\ dirty' = [dirty EXCEPT !.project = TRUE]
  /\ UNCHANGED <<pages, elements, styles, designTokens, nextId>>

(***************************************************************************)
(* Restore: the checkout_version tool on a project whose history holds the *)
(* initial commit only, made by GitManager.init() from the files of the    *)
(* default state, with no other call in progress.  waitForFlush writes the *)
(* dirty units, git restores the committed files and removes the others,   *)
(* reload() reads them back.                                               *)
(***************************************************************************)
InitialCommit == "initial"

CommitHashes == {InitialCommit, "unknown"}

DefaultSnapshot ==
  getStateSnapshot(DefaultProject,
                   (DefaultPageId :> [id |-> DefaultPageId, name |-> "Home",
                                      rootId |-> DefaultRootId, styles |-> EmptyMap]),
                   (DefaultRootId :> RootElement(DefaultRootId, DefaultPageId)),
                   DefaultStyles, DefaultTokens)

\* a restore that re-announces the restored page as a delta
checkout_versionWithDelta(commitHash) ==
  /\ Tick
  /\ dirty' = CleanDirty
  /\ IF commitHash # InitialCommit
     THEN /\ last' = [op |-> "checkout_version", result |-> "GitError", deltas |-> <<>>,
                      broadcast |-> <<>>]
          /\ UNCHANGED <<project, pages, elements, styles, designTokens, nextId>>
     ELSE /\ project' = DefaultSnapshot.project
          /\ pages' = DefaultSnapshot.pages
          /\ elements' = DefaultSnapshot.elements
          /\ styles' = DefaultSnapshot.styles
          /\ designTokens' = DefaultSnapshot.designTokens
          /\ last' = [op |-> "checkout_version", result |-> "ok", deltas |-> <<>>,
                      broadcast |->
                        <<Delta("delta:page:created",
                                [page |-> DefaultSnapshot.pages[DefaultPageId],
                                 rootElement |-> DefaultSnapshot.elements[DefaultRootId]]),
                          Delta("design:full", DefaultSnapshot),
                          Delta("history:updated", <<InitialCommit>>)>>]
          /\ UNCHANGED nextId

checkout_version(commitHash) ==
  /\ Tick
  /\ dirty' = CleanDirty
  /\ IF commitHash # InitialCommit
     THEN /\ last' = [op |-> "checkout_version", result |-> "GitError", deltas |-> <<>>,
                      broadcast |-> <<>>]
          /\ UNCHANGED <<project, pages, elements, styles, designTokens, nextId>>
     ELSE /\ project' = DefaultSnapshot.project
          /\ pages' = DefaultSnapshot.pages
          /\ elements' = DefaultSnapshot.elements
          /\ styles' = DefaultSnapshot.styles
          /\ designTokens' = DefaultSnapshot.designTokens
          /\ last' = [op |-> "checkout_version", result |-> "ok", deltas |-> <<>>,
                      broadcast |->
                        <<Delta("design:full",
                                getStateSnapshot(project', pages', elements', styles',
                                                 designTokens')),
                          Delta("history:updated", <<InitialCommit>>)>>]
          /\ UNCHANGED nextId

\* the calls of SpecR: the two that publish the full state, the restore, and
\* calls that give them pages, elements and styles to work on
NextR ==
  \/ \E parentId \in (DOMAIN elements) \cup {Unknown}, defs \in ElementDefs :
       createElementTree(parentId, defs)
  \/ \E pageId \in (DOMAIN pages) \cup {Unknown}, name \in PageNames : clonePage(pageId, name)
  \/ \E commitHash \in CommitHashes : checkout_version(commitHash)
  \/ \E parentId \in DOMAIN elements, text \in Texts : createElement("div", parentId, text, NoIndex)
  \/ \E name \in PageNames : createPage(name)
  \/ \E selector \in Selectors, props \in StyleProps : setStyles(selector, props)

(***************************************************************************)
(* The viewer: App.setupWsHandlers applied to the observer's copy of the    *)
(* state.  A handler that throws is caught by WsClient.onmessage and leaves *)
(* what it had changed.                                                     *)
(***************************************************************************)
\* Object.assign(el, data.changes)
AssignChanges(el, changes) ==
  [f \in DOMAIN el |-> IF f \in DOMAIN changes THEN changes[f] ELSE el[f]]

ViewerElementCreated(st, data) ==
  LET els1 == (data.element.id :> data.element) @@ st.elements
  IN [st EXCEPT !.elements =
        IF data.parentId \in DOMAIN els1
        THEN [els1 EXCEPT ![data.parentId].children =
                InsertAt(@, data.insertIndex, data.element.id)]
        ELSE els1]

ViewerElementUpdated(st, data) ==
  IF data.id \in DOMAIN st.elements
  THEN [st EXCEPT !.elements[data.id] = AssignChanges(@, data.changes)]
  ELSE st

ViewerElementDeleted(st, data) ==
  LET r == DeleteRecursive(st.elements, data.id, {})
  IN [st EXCEPT !.elements =
        IF ~r.overflow /\ data.parentId \in DOMAIN r.els
        THEN [r.els EXCEPT ![data.parentId].children = FilterOut(@, data.id)]
        ELSE r.els]

ViewerElementMoved(st, data) ==
  IF data.id \notin DOMAIN st.elements THEN st
  ELSE LET els == st.elements
           els1 == IF data.oldParentId \in DOMAIN els
                   THEN [els EXCEPT ![data.oldParentId].children = FilterOut(@, data.id)]
                   ELSE els
           els2 == [els1 EXCEPT ![data.id].parentId = data.newParentId]
       IN IF data.newParentId \notin DOMAIN els2 THEN [st EXCEPT !.elements = els2]
          ELSE LET els3 == [els2 EXCEPT ![data.newParentId].children =
                              InsertAt(@, data.insertIndex, data.id)]
               IN [st EXCEPT !.elements =
                     IF els3[data.id].pageId # els3[data.newParentId].pageId
                     THEN UpdatePageId(els3, data.id, els3[data.newParentId].pageId, {}).els
                     ELSE els3]

ViewerPageCreated(st, data) ==
  [st EXCEPT !.pages = (data.page.id :> data.page) @@ @,
             !.elements = (data.rootElement.id :> data.rootElement) @@ @]

ViewerPageDeleted(st, data) ==
  [st EXCEPT !.elements = Without(@, PageElementIds(@, data.pageId)),
             !.pages = Without(@, {data.pageId}),
             !.project.activePageId =
                IF data.newActivePageId # Null THEN data.newActivePageId ELSE @]

ViewerPageRenamed(st, data) ==
  IF data.pageId \in DOMAIN st.pages
  THEN [st EXCEPT !.pages[data.pageId].name = data.name]
  ELSE st

\* the handler registered for the event type; a type without a handler is
\* dropped by WsClient.onmessage
ViewerApply(st, ev) ==
  CASE ev.type = "design:full" -> ev.data
    [] ev.type = "delta:element:created" -> ViewerElementCreated(st, ev.data)
    [] ev.type = "delta:element:updated" -> ViewerElementUpdated(st, ev.data)
    [] ev.type = "delta:element:deleted" -> ViewerElementDeleted(st, ev.data)
    [] ev.type = "delta:element:moved" -> ViewerElementMoved(st, ev.data)
    [] ev.type = "delta:page:created" -> ViewerPageCreated(st, ev.data)
    [] ev.type = "delta:page:deleted" -> ViewerPageDeleted(st, ev.data)
    [] ev.type = "delta:page:renamed" -> ViewerPageRenamed(st, ev.data)
    [] ev.type = "delta:page:activated" ->
         [st EXCEPT !.project.activePageId = ev.data.pageId]
    [] ev.type = "delta:styles:set" ->
         [st EXCEPT !.styles = (ev.data.selector :> ev.data.properties) @@ @]
    [] ev.type = "delta:styles:batch" -> [st EXCEPT !.styles = Merge(@, ev.data.styles)]
    [] ev.type = "delta:styles:deleted" ->
         [st EXCEPT !.styles = Without(@, {ev.data.selector})]
    [] ev.type = "delta:tokens:set" ->
         [st EXCEPT !.designTokens = (ev.data.category :> ev.data.tokens) @@ @]
    [] ev.type = "delta:viewport:set" -> [st EXCEPT !.project.viewport = ev.data.viewport]
    [] OTHER -> st

\* the events applied in the order they arrive
RECURSIVE ViewerApplyAll(_, _)
ViewerApplyAll(st, evs) ==
  IF evs = <<>> THEN st ELSE ViewerApplyAll(ViewerApply(st, Head(evs)), Tail(evs))

(***************************************************************************)
(* The writer: StateManager.save, DebouncedWriter and the project's files. *)
(* The content of a persistence unit (project.json, styles.json, one file  *)
(* per page) is identified by the mutation that last changed it.  A save   *)
(* captures the content of its units when it starts; each of its file      *)
(* operations completes on its own.                                        *)
(***************************************************************************)
WriterInit ==
  /\ wmem = [project |-> 0, styles |-> 0, active |-> DefaultPageId,
             pages |-> (DefaultPageId :> [stamp |-> 0, live |-> TRUE])]
  /\ wdisk = [project |-> 0, styles |-> 0, pages |-> (DefaultPageId :> 0)]
  /\ nmut = 0
  /\ timer = "none"
  /\ flushPromise = NoSave
  /\ saves = <<>>
  /\ waiters = <<>>
  /\ ncalls = 0
  /\ activeAt = (0 :> DefaultPageId)

isDirty(d) == d.project \/ d.styles \/ d.pages # {} \/ d.deletedPages # {}

\* Object.keys(state.pages)
LivePages(mem) == {p \in DOMAIN mem.pages : mem.pages[p].live}

Writer ==
  [dirty |-> dirty, timer |-> timer, flushPromise |-> flushPromise,
   saves |-> saves, waiters |-> waiters]

SetWriter(w) ==
  /\ dirty' = w.dirty
  /\ timer' = w.timer
  /\ flushPromise' = w.flushPromise
  /\ saves' = w.saves
  /\ waiters' = w.waiters

\* save() writing every file, as _writeSplitFiles does
SaveWritesAll(d, mem, disk) ==
  {[kind |-> "project", page |-> Null, stamp |-> mem.project],
   [kind |-> "styles", page |-> Null, stamp |-> mem.styles]}
  \cup {[kind |-> "page", page |-> p, stamp |-> mem.pages[p].stamp] : p \in LivePages(mem)}
  \cup {[kind |-> "unlink", page |-> p, stamp |-> Null] :
          p \in d.deletedPages \cap DOMAIN disk.pages}

\* the file operations save() starts, each with the content it serialised
SaveWrites(d, mem, disk) ==
  {[kind |-> "project", page |-> Null, stamp |-> mem.project] : x \in {y \in {1} : d.project}}
  \cup {[kind |-> "styles", page |-> Null, stamp |-> mem.styles] : x \in {y \in {1} : d.styles}}
  \cup {[kind |-> "page", page |-> p, stamp |-> mem.pages[p].stamp] :
          p \in d.pages \cap LivePages(mem)}
  \cup {[kind |-> "unlink", page |-> p, stamp |-> Null] :
          p \in d.deletedPages \cap DOMAIN disk.pages}

\* the disk holds, for every unit, its content as of `at` or later
Covers(disk, mem, at) ==
  /\ disk.project >= at.project
  /\ disk.styles >= at.styles
  /\ \A p \in DOMAIN at.pages :
       IF p \in DOMAIN disk.pages THEN disk.pages[p] >= at.pages[p].stamp
       ELSE ~mem.pages[p].live

\* waitForFlush call c returns
Returned(w, c) == [w EXCEPT !.waiters[c].pc = "returned", !.waiters[c].save = NoSave]

FreeSave(sv) == SetMin((1..(Cardinality(DOMAIN sv) + 1)) \ DOMAIN sv)

\* _doFlush, run by the timer (c = 0) or by waitForFlush call c
doFlush(w, mem, disk, c) ==
  IF ~isDirty(w.dirty) THEN (IF c = 0 THEN w ELSE Returned(w, c))
  ELSE LET writes == SaveWrites(w.dirty, mem, disk)
           s == FreeSave(w.saves)
       IN IF writes = {}
          THEN LET w1 == [w EXCEPT !.dirty = CleanDirty, !.flushPromise = NoSave]
               IN IF c = 0 THEN w1 ELSE Returned(w1, c)
          ELSE LET w1 == [w EXCEPT !.saves = (s :> [pending |-> writes, failed |-> FALSE]) @@ @,
                                   !.flushPromise = s]
               IN IF c = 0 THEN w1
                  ELSE [w1 EXCEPT !.waiters[c].pc = "awaitOwn", !.waiters[c].save = s]

\* the calls awaiting save s, in the order they were made
Awaiting(w, s) ==
  SortedSeq({c \in DOMAIN w.waiters :
               w.waiters[c].save = s /\ w.waiters[c].pc \in {"awaitInFlight", "awaitOwn"}})

RECURSIVE Resume(_, _, _, _)
Resume(w, mem, disk, cs) ==
  IF cs = <<>> THEN w
  ELSE LET c == Head(cs)
           w1 == IF w.waiters[c].pc = "awaitInFlight" /\ isDirty(w.dirty)
                 THEN doFlush(w, mem, disk, c)
                 ELSE Returned(w, c)
       IN Resume(w1, mem, disk, Tail(cs))

\* Promise.all of save s resolved: save() clears the dirty-set, _doFlush
\* nulls _flushPromise, the awaiting calls go on
Resolved(w, mem, disk, s) ==
  Resume([w EXCEPT !.dirty = CleanDirty, !.flushPromise = NoSave], mem, disk, Awaiting(w, s))

\* Promise.all of save s rejected: save() throws before _clearDirty
Rejected(w, s) ==
  [w EXCEPT !.flushPromise = NoSave,
            !.waiters = [c \in DOMAIN @ |->
                           IF @[c].save = s /\ @[c].pc \in {"awaitInFlight", "awaitOwn"}
                           THEN [@[c] EXCEPT !.pc = "threw", !.save = NoSave]
                           ELSE @[c]]]

\* a mutator of the engine marks its units dirty and emits its delta; the
\* delta handler calls writer.schedule()
Accept(mem1, d1) ==
  /\ nmut < MaxMutations
  /\ nmut' = nmut + 1
  /\ wmem' = mem1
  /\ dirty' = d1
  /\ timer' = "pending"
  /\ activeAt' = (mem1.project :> mem1.active) @@ activeAt
  /\ UNCHANGED <<wdisk, flushPromise, saves, waiters, ncalls>>
  /\ UNCHANGED <<engineVars, pmVars, histVars, regVars, timerVars, shotVars>>

EditProject == Accept([wmem EXCEPT !.project = nmut + 1], [dirty EXCEPT !.project = TRUE])

EditStyles == Accept([wmem EXCEPT !.styles = nmut + 1], [dirty EXCEPT !.styles = TRUE])

EditPage(p) ==
  /\ p \in LivePages(wmem)
  /\ Accept([wmem EXCEPT !.pages[p].stamp = nmut + 1], DirtyPage(dirty, p))

AddPage ==
  LET p == Cardinality(DOMAIN wmem.pages) + 1
  IN Accept([wmem EXCEPT !.pages = (p :> [stamp |-> nmut + 1, live |-> TRUE]) @@ @],
            DirtyPage(dirty, p))

RemovePage(p) ==
  /\ p \in LivePages(wmem)
  /\ Cardinality(LivePages(wmem)) > 1
  /\ LET wasActive == wmem.active = p
     IN Accept([wmem EXCEPT !.pages[p] = [stamp |-> nmut + 1, live |-> FALSE],
                            !.active = IF wasActive THEN SetMin(LivePages(wmem) \ {p}) ELSE @,
                            !.project = IF wasActive THEN nmut + 1 ELSE @],
               [dirty EXCEPT !.project = @ \/ wasActive,
                             !.deletedPages = @ \cup {p}])

\* the timer set by schedule() fires
TimerFires ==
  /\ timer = "pending"
  /\ SetWriter(doFlush([Writer EXCEPT !.timer = "fired"], wmem, wdisk, 0))
  /\ UNCHANGED <<wmem, wdisk, nmut, ncalls, activeAt>>
  /\ UNCHANGED <<engineVars, pmVars, histVars, regVars, timerVars, shotVars>>

\* a call of writer.waitForFlush() up to its first await or its return
waitForFlushCall ==
  /\ LET c == ncalls + 1
         w0 == [Writer EXCEPT !.timer = "none",
                              !.waiters = (c :> [pc |-> "called", save |-> NoSave, at |-> wmem]) @@ @]
         w1 == IF flushPromise # NoSave
               THEN [w0 EXCEPT !.waiters[c].pc = "awaitInFlight", !.waiters[c].save = flushPromise]
               ELSE IF isDirty(dirty) THEN doFlush(w0, wmem, wdisk, c)
               ELSE Returned(w0, c)
     IN /\ SetWriter(w1)
        /\ ncalls' = c
  /\ UNCHANGED <<wmem, wdisk, nmut, activeAt>>
  /\ UNCHANGED <<engineVars, pmVars, regVars, timerVars, shotVars>>

waitForFlush ==
  /\ ncalls < MaxCalls
  /\ waitForFlushCall
  /\ UNCHANGED histVars

\* one file operation of save s completes
WriteDone(s, op) ==
  /\ s \in DOMAIN saves
  /\ op \in saves[s].pending
  /\ LET enoent == op.kind = "unlink" /\ op.page \notin DOMAIN wdisk.pages
         disk1 == CASE op.kind = "project" -> [wdisk EXCEPT !.project = op.stamp]
                    [] op.kind = "styles" -> [wdisk EXCEPT !.styles = op.stamp]
                    [] op.kind = "page" -> [wdisk EXCEPT !.pages = (op.page :> op.stamp) @@ @]
                    [] op.kind = "unlink" -> [wdisk EXCEPT !.pages = Without(@, {op.page})]
         left == saves[s].pending \ {op}
         failed == saves[s].failed \/ enoent
         w0 == [Writer EXCEPT !.saves = IF left = {} THEN Without(@, {s})
                                        ELSE [@ EXCEPT ![s] = [pending |-> left, failed |-> failed]]]
         w1 == IF enoent /\ ~saves[s].failed THEN Rejected(w0, s)
               ELSE IF left = {} /\ ~failed THEN Resolved(w0, wmem, disk1, s)
               ELSE w0
     IN /\ wdisk' = disk1
        /\ SetWriter(w1)
  /\ UNCHANGED <<wmem, nmut, ncalls, activeAt>>
  /\ UNCHANGED <<engineVars, pmVars, histVars, regVars, timerVars, shotVars>>

\* one file operation of save s fails (the file system rejects the write):
\* the file stays as it is, and the first failure rejects the Promise.all
WriteFails(s, op) ==
  /\ s \in DOMAIN saves
  /\ op \in saves[s].pending
  /\ LET left == saves[s].pending \ {op}
         w0 == [Writer EXCEPT !.saves = IF left = {} THEN Without(@, {s})
                                        ELSE [@ EXCEPT ![s] = [pending |-> left, failed |-> TRUE]]]
     IN SetWriter(IF ~saves[s].failed THEN Rejected(w0, s) ELSE w0)
  /\ UNCHANGED <<wmem, wdisk, nmut, ncalls, activeAt>>
  /\ UNCHANGED <<engineVars, pmVars, histVars, regVars, timerVars, shotVars>>

NextW ==
  \/ EditProject
  \/ EditStyles
  \/ \E p \in DOMAIN wmem.pages : EditPage(p)
  \/ AddPage
  \/ \E p \in DOMAIN wmem.pages : RemovePage(p)
  \/ TimerFires
  \/ waitForFlush
  \/ \E s \in DOMAIN saves : \E op \in saves[s].pending : WriteDone(s, op)


(***************************************************************************)
(* The history: GitManager on the directory the writer saves to, main's    *)
(* saveRevision and the checkout_version tool.  A commit is the files it   *)
(* holds, each with the content it had when staged.  Every git command is  *)
(* a child process that is awaited: it runs from the step that starts it   *)
(* to the step that completes it, and it reads and writes the files when   *)
(* it completes.  The first command of a call starts in the step in which  *)
(* its waitForFlush returns.  The calls are made one after the other: git  *)
(* itself refuses two commands that overlap (index.lock).                  *)
(***************************************************************************)
\* GitManager.init(): the initial commit holds the files init() wrote
HistoryInit ==
  /\ gitIndex = [project |-> 0, styles |-> 0, pages |-> (DefaultPageId :> 0)]
  /\ commits = <<[project |-> 0, styles |-> 0, pages |-> (DefaultPageId :> 0)]>>
  /\ hcalls = <<>>

\* the call has returned or thrown
CallOver(h) == hcalls[h].pc = "done" \/ waiters[hcalls[h].c].pc = "threw"

\* the first git command of call h is running
FirstGitRunning(h) == hcalls[h].pc = "flush" /\ waiters[hcalls[h].c].pc = "returned"

\* a git command of call h is running
GitRunning(h) == FirstGitRunning(h) \/ hcalls[h].pc \in {"commit", "clean"}

NewCall(kind, commitHash) ==
  [kind |-> kind, hash |-> commitHash, c |-> ncalls + 1, pc |-> "flush", at |-> wmem,
   commit |-> Null]

\* app.saveRevision up to the await of waitForFlush
saveRevision ==
  /\ Len(hcalls) < MaxHistoryCalls
  /\ \A h \in DOMAIN hcalls : CallOver(h)
  /\ waitForFlushCall
  /\ hcalls' = Append(hcalls, NewCall("save", Null))
  /\ UNCHANGED <<gitIndex, commits>>

\* `git add .` completes: the index holds the files of the directory
GitAdded(h) ==
  /\ hcalls[h].kind = "save"
  /\ FirstGitRunning(h)
  /\ gitIndex' = wdisk
  /\ hcalls' = [hcalls EXCEPT ![h].pc = "commit"]
  /\ UNCHANGED <<commits, engineVars, dirty, writerVars, pmVars, regVars, timerVars, shotVars>>

\* `git commit` completes: a commit of the index, unless the index is that
\* of the last commit (nothing to commit)
GitCommitted(h) ==
  /\ hcalls[h].pc = "commit"
  /\ IF gitIndex = commits[Len(commits)]
     THEN /\ commits' = commits
          /\ hcalls' = [hcalls EXCEPT ![h].pc = "done"]
     ELSE /\ commits' = Append(commits, gitIndex)
          /\ hcalls' = [hcalls EXCEPT ![h].pc = "done", ![h].commit = Len(commits')]
  /\ UNCHANGED <<gitIndex, engineVars, dirty, writerVars, pmVars, regVars, timerVars, shotVars>>

\* `git checkout <tree> -- .` writes the paths of the tree to the index and
\* to the directory; a path the tree does not hold is left as it is
Overlay(tree, files) ==
  [project |-> tree.project, styles |-> tree.styles, pages |-> tree.pages @@ files.pages]

\* `git clean -f -d` removes the files that are not in the index
Clean(files, index) ==
  [files EXCEPT !.pages = [p \in (DOMAIN @) \cap (DOMAIN index.pages) |-> @[p]]]

\* the checkout_version tool up to the await of waitForFlush
checkoutStart(commitHash) ==
  /\ Len(hcalls) < MaxHistoryCalls
  /\ \A h \in DOMAIN hcalls : CallOver(h)
  /\ commitHash \in DOMAIN commits
  /\ waitForFlushCall
  /\ hcalls' = Append(hcalls, NewCall("checkout", commitHash))
  /\ UNCHANGED <<gitIndex, commits>>

\* GitManager.checkout: `git checkout <hash> -- .` completes
GitCheckedOut(h) ==
  /\ hcalls[h].kind = "checkout"
  /\ FirstGitRunning(h)
  /\ gitIndex' = Overlay(commits[hcalls[h].hash], gitIndex)
  /\ wdisk' = Overlay(commits[hcalls[h].hash], wdisk)
  /\ hcalls' = [hcalls EXCEPT ![h].pc = "clean"]
  /\ UNCHANGED <<wmem, nmut, timer, flushPromise, saves, waiters, ncalls, activeAt>>
  /\ UNCHANGED <<commits, engineVars, dirty, pmVars, regVars, timerVars, shotVars>>

\* GitManager.checkout: `git clean -f -d` completes
GitCleaned(h) ==
  /\ hcalls[h].pc = "clean"
  /\ wdisk' = Clean(wdisk, gitIndex)
  /\ hcalls' = [hcalls EXCEPT ![h].pc = "reload"]
  /\ UNCHANGED <<wmem, nmut, timer, flushPromise, saves, waiters, ncalls, activeAt>>
  /\ UNCHANGED <<gitIndex, commits, engineVars, dirty, pmVars, regVars, timerVars, shotVars>>

\* _loadSplitFiles: project.json, styles.json and every file of pages/
loadSplitFiles(disk, mem) ==
  [project |-> disk.project,
   styles |-> disk.styles,
   active |-> activeAt[disk.project],
   pages |-> [p \in (DOMAIN mem.pages) \cup (DOMAIN disk.pages) |->
                IF p \in DOMAIN disk.pages THEN [stamp |-> disk.pages[p], live |-> TRUE]
                ELSE [mem.pages[p] EXCEPT !.live = FALSE]]]

\* stateManager.reload() completes; the tool broadcasts the snapshot
Reloaded(h) ==
  /\ hcalls[h].pc = "reload"
  /\ wmem' = loadSplitFiles(wdisk, wmem)
  /\ dirty' = CleanDirty
  /\ hcalls' = [hcalls EXCEPT ![h].pc = "done"]
  /\ UNCHANGED <<wdisk, nmut, timer, flushPromise, saves, waiters, ncalls, activeAt>>
  /\ UNCHANGED <<gitIndex, commits, engineVars, pmVars, regVars, timerVars, shotVars>>

\* the text `git diff` prints when no file differs
EmptyDiff == [project |-> FALSE, styles |-> FALSE, pages |-> {}]

\* the files two trees differ in: the text `git diff` prints, by file
DiffOf(a, b) ==
  [project |-> a.project # b.project,
   styles |-> a.styles # b.styles,
   pages |-> {p \in (DOMAIN a.pages) \cup (DOMAIN b.pages) :
                \/ p \notin DOMAIN a.pages
                \/ p \notin DOMAIN b.pages
                \/ a.pages[p] # b.pages[p]}]

\* the files of the directory git looks at when it compares the directory
\* with a tree: a file neither in the index nor in the tree is untracked
Tracked(files, index, tree) ==
  [files EXCEPT !.pages = [p \in (DOMAIN @) \cap ((DOMAIN index.pages) \cup (DOMAIN tree.pages))
                             |-> @[p]]]

\* the commit HEAD names
HeadCommit == commits[Len(commits)]

\* GitManager.getDiff: `git diff <hash> HEAD` with a hash, `git diff HEAD`
\* without one; '' when git fails
getDiff(commitHash) ==
  IF commitHash = Null THEN DiffOf(HeadCommit, Tracked(wdisk, gitIndex, HeadCommit))
  ELSE IF commitHash \notin DOMAIN commits THEN EmptyDiff
  ELSE DiffOf(commits[commitHash], HeadCommit)

\* the get_diff tool up to the await of waitForFlush
diffStart(commitHash) ==
  /\ Len(hcalls) < MaxHistoryCalls
  /\ \A h \in DOMAIN hcalls : CallOver(h)
  /\ waitForFlushCall
  /\ hcalls' = Append(hcalls, NewCall("diff", commitHash) @@ [diff |-> EmptyDiff])
  /\ UNCHANGED <<gitIndex, commits>>

\* the `git diff` of call h completes and the tool returns its text
GitDiffed(h) ==
  /\ hcalls[h].kind = "diff"
  /\ FirstGitRunning(h)
  /\ hcalls' = [hcalls EXCEPT ![h].pc = "done", ![h].diff = getDiff(hcalls[h].hash)]
  /\ UNCHANGED <<gitIndex, commits, engineVars, dirty, writerVars, pmVars, regVars, timerVars, shotVars>>

NextH ==
  \/ EditProject
  \/ EditStyles
  \/ \E p \in DOMAIN wmem.pages : EditPage(p)
  \/ AddPage
  \/ \E p \in DOMAIN wmem.pages : RemovePage(p)
  \/ TimerFires
  \/ \E s \in DOMAIN saves : \E op \in saves[s].pending : WriteDone(s, op)
  \/ saveRevision
  \/ \E commitHash \in DOMAIN commits : checkoutStart(commitHash)
  \/ \E h \in DOMAIN hcalls : GitAdded(h)
  \/ \E h \in DOMAIN hcalls : GitCommitted(h)
  \/ \E h \in DOMAIN hcalls : GitCheckedOut(h)
  \/ \E h \in DOMAIN hcalls : GitCleaned(h)
  \/ \E h \in DOMAIN hcalls : Reloaded(h)


(***************************************************************************)
(* The project manager: ProjectManager.switchProject with _teardownProject *)
(* and _initProject, the engines and writers it constructs, and main's     *)
(* wiring of deltas, of project:switched and of new observer connections.  *)
(* An engine's content is identified by the last mutation applied to it, a *)
(* project's files by the mutation whose content they hold.  Every await   *)
(* on file or git I/O ends an atomic step.                                 *)
(***************************************************************************)
\* the registry main starts from: two projects, the first one active
InitRegistry == [projects |-> <<1, 2>>, activeProjectId |-> 1]

ProjectIds(reg) == SeqRange(reg.projects)

NewEngine(proj) ==
  [proj |-> proj, loaded |-> FALSE, mem |-> 0, dirty |-> FALSE, handlers |-> {}]

NewWriter(sm) == [sm |-> sm, timer |-> "none", flushPromise |-> NoSave]

PMInit ==
  /\ registry = InitRegistry
  /\ regDisk = InitRegistry
  /\ smRef = 1
  /\ writerRef = 1
  /\ gitRef = 1
  /\ deltaHandler = InitHandler
  /\ engs = <<[NewEngine(1) EXCEPT !.loaded = TRUE, !.handlers = {InitHandler}]>>
  /\ writers = <<NewWriter(1)>>
  /\ psaves = <<>>
  /\ pdisk = [proj \in ProjectIds(InitRegistry) |-> 0]
  /\ procs = <<>>
  /\ pmut = 0

PM ==
  [sm |-> smRef, writer |-> writerRef, git |-> gitRef, handler |-> deltaHandler,
   registry |-> registry, engs |-> engs, writers |-> writers, saves |-> psaves,
   procs |-> procs]

SetPM(m) ==
  /\ smRef' = m.sm
  /\ writerRef' = m.writer
  /\ gitRef' = m.git
  /\ deltaHandler' = m.handler
  /\ registry' = m.registry
  /\ engs' = m.engs
  /\ writers' = m.writers
  /\ psaves' = m.saves
  /\ procs' = m.procs

Msg(type, data) == [type |-> type, data |-> data]

\* listProjects(): the projects, each with its active flag
ProjectList(reg) ==
  [i \in 1..Len(reg.projects) |->
     [id |-> reg.projects[i], active |-> reg.projects[i] = reg.activeProjectId]]

\* getStateSnapshot(): structuredClone(this.state), null until init() has loaded
Snapshot(eng) ==
  IF eng.loaded THEN [proj |-> eng.proj, mem |-> eng.mem] ELSE [proj |-> Null, mem |-> Null]

\* StateManager.init(): a directory without project.json gets the files of
\* the default state
InitFiles(disk, proj) == IF proj \in DOMAIN disk THEN disk ELSE (proj :> 0) @@ disk

\* the content init() leaves in memory
Loaded(disk, proj) == InitFiles(disk, proj)[proj]

\* the steps call p has performed so far
Did(m, p, evs) == [m EXCEPT !.procs[p].steps = @ \o evs]

\* _doFlush of writer w on a dirty engine: save() starts
StartSave(m, w) ==
  LET s == FreeSave(m.saves)
      e == m.writers[w].sm
  IN [m EXCEPT !.saves = (s :> [eng |-> e, stamp |-> m.engs[e].mem, writer |-> w]) @@ @,
               !.writers[w].flushPromise = s]

\* _saveRegistry up to its await: writeFile gets the registry as it is now
saveRegistry(m, p) == [m EXCEPT !.procs[p].regw = m.registry]

\* `this.registry.activeProjectId = id; await this._saveRegistry()`
Activate(m, p) ==
  Did(saveRegistry([m EXCEPT !.registry.activeProjectId = m.procs[p].target,
                             !.procs[p].pc = "savingRegistry"], p),
      p, <<"persist.begin">>)

\* _teardownProject once its flush has returned, then the caller up to its
\* await of _saveRegistry
teardownRest(m, p) ==
  IF m.handler # NoHandler /\ m.sm = Null
  THEN [m EXCEPT !.procs[p].pc = "threw"]
  ELSE LET m1 == IF m.handler = NoHandler THEN m
                 ELSE Did([m EXCEPT !.engs[m.sm].handlers = @ \ {m.handler},
                                    !.handler = NoHandler], p, <<"detach">>)
       IN Activate([m1 EXCEPT !.sm = Null, !.writer = Null, !.git = Null], p)

\* _teardownProject from its start
teardownProject(m0, p) ==
  LET m == [m0 EXCEPT !.procs[p].out = m0.sm,
                      !.procs[p].at = IF m0.sm = Null THEN 0 ELSE m0.engs[m0.sm].mem]
  IN
  IF m.sm = Null THEN Activate(m, p)
  ELSE IF m.writer = Null THEN teardownRest(m, p)
  ELSE LET w == m.writer
           m1 == Did([m EXCEPT !.writers[w].timer = "none"], p, <<"flush.begin">>)
       IN IF m1.writers[w].flushPromise # NoSave
          THEN [m1 EXCEPT !.procs[p].pc = "flushing",
                          !.procs[p].awaits = m1.writers[w].flushPromise]
          ELSE IF m1.writers[w].sm = Null THEN [m1 EXCEPT !.procs[p].pc = "threw"]
          ELSE IF m1.engs[m1.writers[w].sm].dirty
          THEN LET m2 == StartSave(m1, w)
               IN [m2 EXCEPT !.procs[p].pc = "flushing",
                             !.procs[p].awaits = m2.writers[w].flushPromise]
          ELSE teardownRest(Did(m1, p, <<"flush.end">>), p)

\* a call of switchProject or createProject, before its first statement
NewProc(kind, target, switchTo) ==
  [kind |-> kind, target |-> target, switchTo |-> switchTo, pc |-> "begin",
   awaits |-> NoSave, out |-> Null, at |-> 0, eng |-> Null, regw |-> InitRegistry,
   steps |-> <<>>, sent |-> <<>>]

switchProject(projectId) ==
  /\ IF registry.activeProjectId = projectId \/ projectId \notin ProjectIds(registry)
     THEN UNCHANGED <<registry, smRef, writerRef, gitRef, deltaHandler, engs, writers,
                      psaves, procs>>
     ELSE /\ Len(procs) < MaxSwitches
          /\ LET p == Len(procs) + 1
                 m == [PM EXCEPT !.procs = Append(@, NewProc("switch", projectId, TRUE))]
             IN SetPM(teardownProject(m, p))
  /\ UNCHANGED <<regDisk, pdisk, pmut>>
  /\ UNCHANGED <<engineVars, dirty, writerVars, histVars, regVars, timerVars, shotVars>>

\* the id a new project gets: nanoid(8) is fresh
NewProjectId ==
  1 + Cardinality(DOMAIN pdisk \cup ProjectIds(registry) \cup {procs[p].target : p \in DOMAIN procs})

\* createProject up to its await of mkdir
createProject(switchTo) ==
  /\ Len(procs) < MaxSwitches
  /\ procs' = Append(procs, [NewProc("create", NewProjectId, switchTo) EXCEPT !.pc = "mkdir"])
  /\ UNCHANGED <<registry, regDisk, smRef, writerRef, gitRef, deltaHandler, engs, writers,
                 psaves, pdisk, pmut>>
  /\ UNCHANGED <<engineVars, dirty, writerVars, histVars, regVars, timerVars, shotVars>>

\* mkdir of createProject call p completes: the project is pushed, then the
\* activating branch tears the active project down and the other branch
\* saves the registry
DirMade(p) ==
  /\ p \in DOMAIN procs
  /\ procs[p].pc = "mkdir"
  /\ LET m == [PM EXCEPT !.registry.projects = Append(@, procs[p].target)]
     IN IF procs[p].switchTo THEN SetPM(teardownProject(m, p))
        ELSE SetPM(saveRegistry([m EXCEPT !.procs[p].pc = "savingOnly"], p))
  /\ UNCHANGED <<regDisk, pdisk, pmut>>
  /\ UNCHANGED <<engineVars, dirty, writerVars, histVars, regVars, timerVars, shotVars>>

\* _saveRegistry of a createProject call that does not activate completes;
\* a temporary StateManager and GitManager initialise the new directory
TempInit(p) ==
  /\ p \in DOMAIN procs
  /\ procs[p].pc = "savingOnly"
  /\ regDisk' = procs[p].regw
  /\ pdisk' = InitFiles(pdisk, procs[p].target)
  /\ procs' = [procs EXCEPT ![p].pc = "done",
                             ![p].sent = <<Msg("projects:updated", ProjectList(registry))>>]
  /\ UNCHANGED <<registry, smRef, writerRef, gitRef, deltaHandler, engs, writers, psaves, pmut>>
  /\ UNCHANGED <<engineVars, dirty, writerVars, histVars, regVars, timerVars, shotVars>>

RECURSIVE ResumeTeardown(_, _)
ResumeTeardown(m, ps) ==
  IF ps = <<>> THEN m
  ELSE ResumeTeardown(
         teardownRest(Did([m EXCEPT !.procs[Head(ps)].awaits = NoSave],
                          Head(ps), <<"flush.end">>), Head(ps)),
         Tail(ps))

\* the writes of save s complete: save() clears the engine's dirty-set,
\* _doFlush nulls its writer's _flushPromise, and the switchProject calls
\* awaiting it go on (their isDirty() test reads the cleared set)
SaveCompletes(s) ==
  /\ s \in DOMAIN psaves
  /\ LET e == psaves[s].eng
         w == psaves[s].writer
         m == [PM EXCEPT !.saves = Without(@, {s}),
                         !.engs[e].dirty = FALSE,
                         !.writers[w].flushPromise = NoSave]
         ps == SortedSeq({p \in DOMAIN procs :
                            procs[p].pc = "flushing" /\ procs[p].awaits = s})
     IN /\ SetPM(ResumeTeardown(m, ps))
        /\ pdisk' = [pdisk EXCEPT ![engs[e].proj] = psaves[s].stamp]
  /\ UNCHANGED <<regDisk, pmut>>
  /\ UNCHANGED <<engineVars, dirty, writerVars, histVars, regVars, timerVars, shotVars>>

\* _saveRegistry of call p completes; _initProject constructs the engine
\* and starts its init()
RegistrySaved(p) ==
  /\ p \in DOMAIN procs
  /\ procs[p].pc = "savingRegistry"
  /\ regDisk' = procs[p].regw
  /\ LET e == Len(engs) + 1
     IN SetPM(Did([PM EXCEPT !.engs = Append(@, NewEngine(procs[p].target)),
                             !.sm = e,
                             !.procs[p].eng = e,
                             !.procs[p].pc = "loading"],
                  p, <<"persist.end", "load.begin">>))
  /\ UNCHANGED <<pdisk, pmut>>
  /\ UNCHANGED <<engineVars, dirty, writerVars, histVars, regVars, timerVars, shotVars>>

\* a handler attached as soon as the state has loaded
StateLoadedSubscribing(p) ==
  /\ p \in DOMAIN procs
  /\ procs[p].pc = "loading"
  /\ smRef # Null
  /\ SetPM(Did([PM EXCEPT !.engs[procs[p].eng].loaded = TRUE,
                          !.engs[procs[p].eng].mem = Loaded(pdisk, procs[p].target),
                          !.engs[smRef].handlers = @ \cup {p},
                          !.handler = p,
                          !.writers = Append(@, NewWriter(smRef)),
                          !.writer = Len(writers) + 1,
                          !.git = procs[p].target,
                          !.procs[p].pc = "gitInit"],
               p, <<"load.end", "subscribe", "writer", "history.begin">>))
  /\ pdisk' = InitFiles(pdisk, procs[p].target)
  /\ UNCHANGED <<regDisk, pmut>>
  /\ UNCHANGED <<engineVars, dirty, writerVars, histVars, regVars, timerVars, shotVars>>

\* stateManager.init() of call p completes; _initProject constructs the
\* writer on the engine projectManager.stateManager now refers to and
\* starts gitManager.init()
StateLoaded(p) ==
  /\ p \in DOMAIN procs
  /\ procs[p].pc = "loading"
  /\ SetPM(Did([PM EXCEPT !.engs[procs[p].eng].loaded = TRUE,
                          !.engs[procs[p].eng].mem = Loaded(pdisk, procs[p].target),
                          !.writers = Append(@, NewWriter(smRef)),
                          !.writer = Len(writers) + 1,
                          !.git = procs[p].target,
                          !.procs[p].pc = "gitInit"],
               p, <<"load.end", "writer", "history.begin">>))
  /\ pdisk' = InitFiles(pdisk, procs[p].target)
  /\ UNCHANGED <<regDisk, pmut>>
  /\ UNCHANGED <<engineVars, dirty, writerVars, histVars, regVars, timerVars, shotVars>>

\* gitManager.init() of call p completes; _initProject attaches the delta
\* listener, switchProject emits project:switched and main's handler
\* broadcasts the project list and the full state
GitReady(p) ==
  /\ p \in DOMAIN procs
  /\ procs[p].pc = "gitInit"
  /\ IF smRef = Null
     THEN SetPM(Did([PM EXCEPT !.handler = p, !.procs[p].pc = "threw"],
                    p, <<"history.end">>))
     ELSE SetPM(Did([PM EXCEPT !.handler = p,
                               !.engs[smRef].handlers = @ \cup {p},
                               !.procs[p].pc = "done",
                               !.procs[p].sent =
                                  <<Msg("projects:updated", ProjectList(registry)),
                                    Msg("design:full", Snapshot(engs[smRef]))>>],
                    p, <<"history.end", "subscribe", "switched", "snapshot">>))
  /\ UNCHANGED <<regDisk, pdisk, pmut>>
  /\ UNCHANGED <<engineVars, dirty, writerVars, histVars, regVars, timerVars, shotVars>>

\* a mutating operation through app.stateManager; each attached listener
\* re-emits the delta, and main's handler broadcasts it and calls
\* app.writer.schedule()
Mutate ==
  /\ pmut < MaxMutations
  /\ IF smRef = Null \/ ~engs[smRef].loaded
     THEN UNCHANGED <<engs, writers, pmut>>
     ELSE /\ pmut' = pmut + 1
          /\ engs' = [engs EXCEPT ![smRef].mem = pmut + 1, ![smRef].dirty = TRUE]
          /\ IF engs[smRef].handlers = {} \/ writerRef = Null
             THEN UNCHANGED writers
             ELSE writers' = [writers EXCEPT ![writerRef].timer = "pending"]
  /\ UNCHANGED <<registry, regDisk, smRef, writerRef, gitRef, deltaHandler, psaves, pdisk,
                 procs>>
  /\ UNCHANGED <<engineVars, dirty, writerVars, histVars, regVars, timerVars, shotVars>>

\* the debounce timer of writer w fires
WriterTimerFires(w) ==
  /\ w \in DOMAIN writers
  /\ writers[w].timer = "pending"
  /\ LET m == [PM EXCEPT !.writers[w].timer = "fired"]
     IN IF writers[w].sm = Null \/ ~engs[writers[w].sm].dirty
        THEN SetPM(m)
        ELSE SetPM(StartSave(m, w))
  /\ UNCHANGED <<regDisk, pdisk, pmut>>
  /\ UNCHANGED <<engineVars, dirty, writerVars, histVars, regVars, timerVars, shotVars>>

\* the deltas main's handler broadcasts when a mutation is applied now: one
\* for each listener attached to the engine
MutateDeltas ==
  IF smRef = Null \/ ~engs[smRef].loaded THEN <<>>
  ELSE [h \in 1..Cardinality(engs[smRef].handlers) |->
          Msg("delta", [proj |-> engs[smRef].proj, mem |-> pmut + 1])]

\* wss.on('connection'): what an observer connecting now is sent, the
\* project list and then the full state; getStateSnapshot() on a null
\* stateManager throws after the first message
ConnectSends ==
  IF smRef = Null THEN <<Msg("projects:updated", ProjectList(registry))>>
  ELSE <<Msg("projects:updated", ProjectList(registry)),
         Msg("design:full", Snapshot(engs[smRef]))>>

NextP ==
  \/ \E projectId \in ProjectIds(registry) \cup {Unknown} : switchProject(projectId)
  \/ \E switchTo \in BOOLEAN : createProject(switchTo)
  \/ \E p \in DOMAIN procs : DirMade(p)
  \/ \E p \in DOMAIN procs : TempInit(p)
  \/ \E s \in DOMAIN psaves : SaveCompletes(s)
  \/ \E p \in DOMAIN procs : RegistrySaved(p)
  \/ \E p \in DOMAIN procs : StateLoaded(p)
  \/ \E p \in DOMAIN procs : GitReady(p)
  \/ Mutate
  \/ \E w \in DOMAIN writers : WriterTimerFires(w)

(***************************************************************************)
(* The registry: ProjectManager.createProject, switchProject,              *)
(* deleteProject and renameProject on projects with names and slugs.  A    *)
(* name and a slug are sequences of characters.  The engine, writer and    *)
(* history of a project are reduced to whether they are set; every await   *)
(* on file or git I/O ends an atomic step, and calls overlap.              *)
(***************************************************************************)
\* toLowerCase()
ToLower(c) == CASE c = "A" -> "a" [] c = "B" -> "b" [] OTHER -> c

\* [a-z0-9]
IsSlugChar(c) ==
  c \in {"a", "b", "c", "e", "j", "o", "p", "r", "t", "0", "1", "2", "3", "4", "5"}

RECURSIVE SkipOthers(_)
SkipOthers(str) ==
  IF str = <<>> \/ IsSlugChar(Head(str)) THEN str ELSE SkipOthers(Tail(str))

\* .replace(/[^a-z0-9]+/g, '-')
RECURSIVE DashRuns(_)
DashRuns(str) ==
  IF str = <<>> THEN <<>>
  ELSE IF IsSlugChar(Head(str)) THEN <<Head(str)>> \o DashRuns(Tail(str))
  ELSE <<"-">> \o DashRuns(SkipOthers(Tail(str)))

RECURSIVE TrimLeft(_)
TrimLeft(str) == IF str # <<>> /\ Head(str) = "-" THEN TrimLeft(Tail(str)) ELSE str

RECURSIVE TrimRight(_)
TrimRight(str) ==
  IF str # <<>> /\ str[Len(str)] = "-" THEN TrimRight(SubSeq(str, 1, Len(str) - 1)) ELSE str

\* .substring(0, 50)
MaxSlugLength == 50

DefaultSlug == <<"p", "r", "o", "j", "e", "c", "t">>

slugify(name) ==
  LET lower == [i \in 1..Len(name) |-> ToLower(name[i])]
      trimmed == TrimRight(TrimLeft(DashRuns(lower)))
      cut == SubSeq(trimmed, 1, IF Len(trimmed) < MaxSlugLength THEN Len(trimmed)
                                ELSE MaxSlugLength)
  IN IF cut = <<>> THEN DefaultSlug ELSE cut

\* String(counter) for the counters the model reaches
Digits(n) == <<CASE n = 1 -> "1" [] n = 2 -> "2" [] n = 3 -> "3" [] n = 4 -> "4" [] OTHER -> "5">>

\* the loop of createProject: baseSlug, then baseSlug-1, baseSlug-2, ...
RECURSIVE UniqueSlug(_, _, _, _)
UniqueSlug(slug, baseSlug, counter, taken) ==
  IF slug \notin taken THEN slug
  ELSE UniqueSlug(baseSlug \o <<"-">> \o Digits(counter), baseSlug, counter + 1, taken)

Slugs(reg) == {reg.projects[i].slug : i \in 1..Len(reg.projects)}

GIds(reg) == {reg.projects[i].id : i \in 1..Len(reg.projects)}

GProject(id, name, slug) == [id |-> id, name |-> name, slug |-> slug]

\* the names given to createProject and renameProject
ProjectNames == { <<"A">>, <<"!">> }

\* two projects made one after the other, the first one active
InitProjects == <<GProject(1, <<"A">>, slugify(<<"A">>)), GProject(2, <<"B">>, slugify(<<"B">>))>>

RegistryInit ==
  /\ greg = [projects |-> InitProjects, activeProjectId |-> 1]
  /\ gfile = [projects |-> InitProjects, activeProjectId |-> 1]
  /\ gdirs = {InitProjects[1].slug, InitProjects[2].slug}
  /\ gsm = 1
  /\ gwriter = TRUE
  /\ ghandler = TRUE
  /\ gcalls = <<>>

G ==
  [reg |-> greg, dirs |-> gdirs, sm |-> gsm, writer |-> gwriter, handler |-> ghandler,
   calls |-> gcalls]

SetG(g) ==
  /\ greg' = g.reg
  /\ gdirs' = g.dirs
  /\ gsm' = g.sm
  /\ gwriter' = g.writer
  /\ ghandler' = g.handler
  /\ gcalls' = g.calls

\* findIndex: the position of the project, 0 when it is not listed
IndexOf(reg, id) ==
  IF id \in GIds(reg) THEN CHOOSE i \in 1..Len(reg.projects) : reg.projects[i].id = id ELSE 0

\* projects.splice(idx, 1)
Splice(projects, idx) ==
  IF idx > Len(projects) THEN projects
  ELSE SubSeq(projects, 1, idx - 1) \o SubSeq(projects, idx + 1, Len(projects))

GCall(kind, id) ==
  [kind |-> kind, id |-> id, target |-> Null, idx |-> 0, pc |-> "begin",
   project |-> GProject(Null, <<>>, <<>>), switchTo |-> FALSE, regw |-> greg]

\* `await this._saveRegistry()`: writeFile gets the registry as it is now
GSave(g, c, pc) == [g EXCEPT !.calls[c].regw = g.reg, !.calls[c].pc = pc]

\* `this.registry.activeProjectId = id; await this._saveRegistry()`
GActivate(g, c) ==
  GSave([g EXCEPT !.reg.activeProjectId = g.calls[c].target], c, "saveRegistry")

\* _teardownProject after its await of waitForFlush, then the activation
GTeardownRest(g, c) ==
  IF g.handler /\ g.sm = Null THEN [g EXCEPT !.calls[c].pc = "threw"]
  ELSE GActivate([g EXCEPT !.handler = FALSE, !.sm = Null, !.writer = FALSE], c)

\* _teardownProject from its start; `flush`: the writer has a save to await
GTeardown(g, c, flush) ==
  IF g.sm = Null THEN GActivate(g, c)
  ELSE IF g.writer /\ flush THEN [g EXCEPT !.calls[c].pc = "flush"]
  ELSE GTeardownRest(g, c)

\* what follows `await this.switchProject(...)` or the activating branch
AfterSwitch(g, c) ==
  IF g.calls[c].kind = "delete"
  THEN GSave([g EXCEPT !.reg.projects = Splice(@, g.calls[c].idx)], c, "saveAfterDelete")
  ELSE [g EXCEPT !.calls[c].pc = "done"]

FreshId == 1 + Cardinality(GIds(greg) \cup {gcalls[c].id : c \in DOMAIN gcalls} \cup {1, 2})

\* createProject up to its await of mkdir: the slug is chosen here
createProjectCall(name, switchTo) ==
  /\ Len(gcalls) < MaxProjectCalls
  /\ LET slug == UniqueSlug(slugify(name), slugify(name), 1, Slugs(greg))
     IN gcalls' = Append(gcalls,
                    [GCall("create", FreshId) EXCEPT
                       !.project = GProject(FreshId, name, slug),
                       !.target = FreshId, !.switchTo = switchTo, !.pc = "mkdir"])
  /\ UNCHANGED <<greg, gfile, gdirs, gsm, gwriter, ghandler>>
  /\ UNCHANGED <<engineVars, dirty, writerVars, pmVars, histVars, timerVars, shotVars>>

\* mkdir completes: the project is pushed
MkdirDone(c, flush) ==
  /\ gcalls[c].pc = "mkdir"
  /\ LET g == [G EXCEPT !.dirs = @ \cup {gcalls[c].project.slug},
                        !.reg.projects = Append(@, gcalls[c].project)]
     IN IF gcalls[c].switchTo THEN SetG(GTeardown(g, c, flush))
        ELSE SetG(GSave(g, c, "saveOnly"))
  /\ UNCHANGED gfile
  /\ UNCHANGED <<engineVars, dirty, writerVars, pmVars, histVars, timerVars, shotVars>>

\* the branch that does not activate: _saveRegistry completes, then the
\* temporary StateManager and GitManager initialise the directory
SavedOnly(c) ==
  /\ gcalls[c].pc \in {"saveOnly", "tempState", "tempGit"}
  /\ IF gcalls[c].pc = "saveOnly" THEN gfile' = gcalls[c].regw ELSE gfile' = gfile
  /\ gcalls' = [gcalls EXCEPT ![c].pc = CASE @ = "saveOnly" -> "tempState"
                                          [] @ = "tempState" -> "tempGit"
                                          [] OTHER -> "done"]
  /\ UNCHANGED <<greg, gdirs, gsm, gwriter, ghandler>>
  /\ UNCHANGED <<engineVars, dirty, writerVars, pmVars, histVars, timerVars, shotVars>>

\* a switchProject without the test of the active project
switchProjectCallAlways(projectId, flush) ==
  /\ Len(gcalls) < MaxProjectCalls
  /\ LET c == Len(gcalls) + 1
         call == [GCall("switch", projectId) EXCEPT !.target = projectId]
         g == [G EXCEPT !.calls = Append(@, call)]
     IN IF projectId \notin GIds(greg) THEN SetG([g EXCEPT !.calls[c].pc = "NotFound"])
        ELSE SetG(GTeardown(g, c, flush))
  /\ UNCHANGED gfile
  /\ UNCHANGED <<engineVars, dirty, writerVars, pmVars, histVars, timerVars, shotVars>>

\* switchProject up to its first await
switchProjectCall(projectId, flush) ==
  /\ Len(gcalls) < MaxProjectCalls
  /\ LET c == Len(gcalls) + 1
         call == [GCall("switch", projectId) EXCEPT !.target = projectId]
         g == [G EXCEPT !.calls = Append(@, call)]
     IN IF greg.activeProjectId = projectId THEN SetG([g EXCEPT !.calls[c].pc = "done"])
        ELSE IF projectId \notin GIds(greg) THEN SetG([g EXCEPT !.calls[c].pc = "NotFound"])
        ELSE SetG(GTeardown(g, c, flush))
  /\ UNCHANGED gfile
  /\ UNCHANGED <<engineVars, dirty, writerVars, pmVars, histVars, timerVars, shotVars>>

\* the waitForFlush of a teardown returns
FlushDone(c) ==
  /\ gcalls[c].pc = "flush"
  /\ SetG(GTeardownRest(G, c))
  /\ UNCHANGED gfile
  /\ UNCHANGED <<engineVars, dirty, writerVars, pmVars, histVars, timerVars, shotVars>>

\* _saveRegistry of an activation completes; _initProject looks the project
\* up, constructs the StateManager and awaits its init()
RegistryWritten(c) ==
  /\ gcalls[c].pc = "saveRegistry"
  /\ gfile' = gcalls[c].regw
  /\ IF gcalls[c].target \notin GIds(greg)
     THEN SetG([G EXCEPT !.calls[c].pc = "NotFound"])
     ELSE SetG([G EXCEPT !.sm = gcalls[c].target, !.calls[c].pc = "load"])
  /\ UNCHANGED <<engineVars, dirty, writerVars, pmVars, histVars, timerVars, shotVars>>

\* stateManager.init() completes; the writer is constructed and
\* gitManager.init() awaited
EngineLoaded(c) ==
  /\ gcalls[c].pc = "load"
  /\ SetG([G EXCEPT !.writer = TRUE, !.calls[c].pc = "git"])
  /\ UNCHANGED gfile
  /\ UNCHANGED <<engineVars, dirty, writerVars, pmVars, histVars, timerVars, shotVars>>

\* gitManager.init() completes; the listener is attached to
\* this.stateManager, project:switched is emitted and the caller goes on
HistoryReady(c) ==
  /\ gcalls[c].pc = "git"
  /\ IF gsm = Null THEN SetG([G EXCEPT !.handler = TRUE, !.calls[c].pc = "threw"])
     ELSE SetG(AfterSwitch([G EXCEPT !.handler = TRUE], c))
  /\ UNCHANGED gfile
  /\ UNCHANGED <<engineVars, dirty, writerVars, pmVars, histVars, timerVars, shotVars>>

\* deleteProject up to its first await
deleteProject(projectId, flush) ==
  /\ Len(gcalls) < MaxProjectCalls
  /\ LET c == Len(gcalls) + 1
         idx == IndexOf(greg, projectId)
         call == [GCall("delete", projectId) EXCEPT !.idx = idx]
         g == [G EXCEPT !.calls = Append(@, call)]
     IN IF idx = 0 THEN SetG([g EXCEPT !.calls[c].pc = "NotFound"])
        ELSE IF Len(greg.projects) <= 1 THEN SetG([g EXCEPT !.calls[c].pc = "InvalidOperation"])
        ELSE LET g1 == [g EXCEPT !.calls[c].project = greg.projects[idx]]
             IN IF greg.activeProjectId = projectId
                THEN LET nextProject ==
                           greg.projects[SetMin({i \in 1..Len(greg.projects) :
                                                   greg.projects[i].id # projectId})]
                         g2 == [g1 EXCEPT !.calls[c].target = nextProject.id]
                     IN \* switchProject(nextProject.id): it is not the active one
                        SetG(GTeardown(g2, c, flush))
                ELSE SetG(AfterSwitch(g1, c))
  /\ UNCHANGED gfile
  /\ UNCHANGED <<engineVars, dirty, writerVars, pmVars, histVars, timerVars, shotVars>>

\* _saveRegistry of deleteProject completes; the directory is removed if
\* it exists
DeleteSaved(c) ==
  /\ gcalls[c].pc = "saveAfterDelete"
  /\ gfile' = gcalls[c].regw
  /\ gcalls' = [gcalls EXCEPT ![c].pc = IF gcalls[c].project.slug \in gdirs THEN "rm" ELSE "done"]
  /\ UNCHANGED <<greg, gdirs, gsm, gwriter, ghandler>>
  /\ UNCHANGED <<engineVars, dirty, writerVars, pmVars, histVars, timerVars, shotVars>>

\* rm of the project directory completes
DirRemoved(c) ==
  /\ gcalls[c].pc = "rm"
  /\ gdirs' = gdirs \ {gcalls[c].project.slug}
  /\ gcalls' = [gcalls EXCEPT ![c].pc = "done"]
  /\ UNCHANGED <<greg, gfile, gsm, gwriter, ghandler>>
  /\ UNCHANGED <<engineVars, dirty, writerVars, pmVars, histVars, timerVars, shotVars>>

\* renameProject up to its await of _saveRegistry
renameProject(projectId, newName) ==
  /\ Len(gcalls) < MaxProjectCalls
  /\ LET c == Len(gcalls) + 1
         idx == IndexOf(greg, projectId)
         g == [G EXCEPT !.calls = Append(@, GCall("rename", projectId))]
     IN IF idx = 0 THEN SetG([g EXCEPT !.calls[c].pc = "NotFound"])
        ELSE SetG(GSave([g EXCEPT !.reg.projects[idx].name = newName], c, "saveRename"))
  /\ UNCHANGED gfile
  /\ UNCHANGED <<engineVars, dirty, writerVars, pmVars, histVars, timerVars, shotVars>>

\* _saveRegistry of renameProject completes
RenameSaved(c) ==
  /\ gcalls[c].pc = "saveRename"
  /\ gfile' = gcalls[c].regw
  /\ gcalls' = [gcalls EXCEPT ![c].pc = "done"]
  /\ UNCHANGED <<greg, gdirs, gsm, gwriter, ghandler>>
  /\ UNCHANGED <<engineVars, dirty, writerVars, pmVars, histVars, timerVars, shotVars>>

NextG ==
  \/ \E name \in ProjectNames, switchTo \in BOOLEAN : createProjectCall(name, switchTo)
  \/ \E c \in DOMAIN gcalls, flush \in BOOLEAN : MkdirDone(c, flush)
  \/ \E c \in DOMAIN gcalls : SavedOnly(c)
  \/ \E projectId \in GIds(greg) \cup {Unknown}, flush \in BOOLEAN :
       switchProjectCall(projectId, flush)
  \/ \E c \in DOMAIN gcalls : FlushDone(c)
  \/ \E c \in DOMAIN gcalls : RegistryWritten(c)
  \/ \E c \in DOMAIN gcalls : EngineLoaded(c)
  \/ \E c \in DOMAIN gcalls : HistoryReady(c)
  \/ \E projectId \in GIds(greg) \cup {Unknown}, flush \in BOOLEAN :
       deleteProject(projectId, flush)
  \/ \E c \in DOMAIN gcalls : DeleteSaved(c)
  \/ \E c \in DOMAIN gcalls : DirRemoved(c)
  \/ \E projectId \in GIds(greg) \cup {Unknown}, newName \in ProjectNames :
       renameProject(projectId, newName)
  \/ \E c \in DOMAIN gcalls : RenameSaved(c)

(***************************************************************************)
(* The timer of one DebouncedWriter.  A timeout set by setTimeout stays in *)
(* the event loop until it expires or clearTimeout is given its handle;    *)
(* this._timer keeps the handle of the timeout last set, also after that   *)
(* timeout has expired.  The engine is its isDirty() and a save() is in    *)
(* progress from the _doFlush that starts it to the step that resolves it. *)
(***************************************************************************)
TimerInit ==
  /\ tTimeouts = {}
  /\ tTimer = Null
  /\ tScheduled = 0
  /\ tDirty = FALSE
  /\ tSaves = {}
  /\ tFlushPromise = NoSave
  /\ tCalls = <<>>

TimerFrame == UNCHANGED <<engineVars, dirty, writerVars, pmVars, histVars, regVars, shotVars>>

\* clearTimeout(handle): the timeout, if it is still to expire, never does
clearTimeout(timeouts, handle) == timeouts \ {handle}

\* schedule() that sets a timeout without clearing the one before
scheduleNoClear ==
  /\ tScheduled < MaxSchedules
  /\ LET id == tScheduled + 1
     IN /\ tTimeouts' = tTimeouts \cup {id}
        /\ tTimer' = id
        /\ tScheduled' = id
  /\ tDirty' = TRUE
  /\ UNCHANGED <<tSaves, tFlushPromise, tCalls>>
  /\ TimerFrame

\* a mutator marks its units dirty and emits its delta; main's listener
\* calls schedule()
schedule ==
  /\ tScheduled < MaxSchedules
  /\ LET id == tScheduled + 1
         cleared == IF tTimer # Null THEN clearTimeout(tTimeouts, tTimer) ELSE tTimeouts
     IN /\ tTimeouts' = cleared \cup {id}
        /\ tTimer' = id
        /\ tScheduled' = id
  /\ tDirty' = TRUE
  /\ UNCHANGED <<tSaves, tFlushPromise, tCalls>>
  /\ TimerFrame

\* _doFlush run by the timeout (c = 0) or by call c, up to its await
TimerDoFlush(c, calls) ==
  IF ~tDirty
  THEN /\ tCalls' = IF c = 0 THEN calls ELSE [calls EXCEPT ![c].pc = "returned"]
       /\ UNCHANGED <<tSaves, tFlushPromise>>
  ELSE LET s == SetMin((1..(Cardinality(tSaves) + 1)) \ tSaves)
       IN /\ tSaves' = tSaves \cup {s}
          /\ tFlushPromise' = s
          /\ tCalls' = IF c = 0 THEN calls
                       ELSE [calls EXCEPT ![c].pc = "awaitOwn", ![c].save = s]

\* the timeout expires: its callback runs _doFlush
Expires(t) ==
  /\ t \in tTimeouts
  /\ tTimeouts' = tTimeouts \ {t}
  /\ TimerDoFlush(0, tCalls)
  /\ UNCHANGED <<tTimer, tScheduled, tDirty>>
  /\ TimerFrame

\* `if (this._timer) { clearTimeout(this._timer); this._timer = null; }`
CancelTimer ==
  /\ tTimeouts' = IF tTimer # Null THEN clearTimeout(tTimeouts, tTimer) ELSE tTimeouts
  /\ tTimer' = Null

\* a call of flush() up to its await
flush ==
  /\ Len(tCalls) < MaxTimerCalls
  /\ CancelTimer
  /\ TimerDoFlush(Len(tCalls) + 1,
                  Append(tCalls, [kind |-> "flush", pc |-> "called", save |-> NoSave]))
  /\ UNCHANGED <<tScheduled, tDirty>>
  /\ TimerFrame

\* a call of waitForFlush() up to its first await
waitForFlushOfTimer ==
  /\ Len(tCalls) < MaxTimerCalls
  /\ CancelTimer
  /\ LET c == Len(tCalls) + 1
         calls == Append(tCalls, [kind |-> "waitForFlush", pc |-> "called", save |-> NoSave])
     IN IF tFlushPromise # NoSave
        THEN /\ tCalls' = [calls EXCEPT ![c].pc = "awaitInFlight", ![c].save = tFlushPromise]
             /\ UNCHANGED <<tSaves, tFlushPromise>>
        ELSE TimerDoFlush(c, calls)
  /\ UNCHANGED <<tScheduled, tDirty>>
  /\ TimerFrame

\* save() s resolves: it has cleared the dirty-set, the _doFlush that awaits
\* it nulls _flushPromise, and the calls that await it find nothing dirty
SaveResolves(s) ==
  /\ s \in tSaves
  /\ tSaves' = tSaves \ {s}
  /\ tDirty' = FALSE
  /\ tFlushPromise' = NoSave
  /\ tCalls' = [c \in DOMAIN tCalls |->
                  IF tCalls[c].save = s /\ tCalls[c].pc \in {"awaitOwn", "awaitInFlight"}
                  THEN [tCalls[c] EXCEPT !.pc = "returned", !.save = NoSave]
                  ELSE tCalls[c]]
  /\ UNCHANGED <<tTimeouts, tTimer, tScheduled>>
  /\ TimerFrame

NextT ==
  \/ schedule
  \/ \E t \in tTimeouts : Expires(t)
  \/ flush
  \/ waitForFlushOfTimer
  \/ \E s \in tSaves : SaveResolves(s)

(***************************************************************************)
(* Spec: any sequence of at most MaxOps engine calls on the default state  *)
(***************************************************************************)
(***************************************************************************)
(* The screenshot requests of the web server: requestScreenshot, its       *)
(* timeout and the screenshot:response message of a viewer.  A request id  *)
(* is fresh (nanoid); every viewer connected is sent the request and may   *)
(* answer it, so a request can get several responses.                      *)
(***************************************************************************)
ShotInit ==
  /\ screenshotRequests = <<>>
  /\ shotTimeouts = {}
  /\ shotSettled = <<>>
  /\ shotResponses = 0

ShotFrame == UNCHANGED <<engineVars, dirty, writerVars, pmVars, histVars, regVars, timerVars>>

\* requestScreenshot: the timeout is set, the entry put in the map and the
\* request broadcast
requestScreenshot ==
  /\ Len(shotSettled) < MaxRequests
  /\ LET requestId == Len(shotSettled) + 1
     IN /\ shotTimeouts' = shotTimeouts \cup {requestId}
        /\ screenshotRequests' = (requestId :> [timeoutId |-> requestId]) @@ screenshotRequests
        /\ shotSettled' = Append(shotSettled, <<>>)
  /\ UNCHANGED shotResponses
  /\ ShotFrame

\* the timeout callback of request requestId runs
ScreenshotTimeout(requestId) ==
  /\ requestId \in shotTimeouts
  /\ shotTimeouts' = shotTimeouts \ {requestId}
  /\ screenshotRequests' = Without(screenshotRequests, {requestId})
  /\ shotSettled' = [shotSettled EXCEPT ![requestId] = Append(@, "timeout")]
  /\ UNCHANGED shotResponses
  /\ ShotFrame

\* a response handler that leaves the timeout set
screenshotResponseNoClear(requestId, success) ==
  /\ shotResponses < MaxResponses
  /\ shotResponses' = shotResponses + 1
  /\ IF requestId \notin DOMAIN screenshotRequests
     THEN UNCHANGED <<screenshotRequests, shotTimeouts, shotSettled>>
     ELSE /\ screenshotRequests' = Without(screenshotRequests, {requestId})
          /\ shotTimeouts' = shotTimeouts
          /\ shotSettled' = [shotSettled EXCEPT ![requestId] =
                               Append(@, IF success THEN "resolved" ELSE "rejected")]
  /\ ShotFrame

\* handleClientMessage, case 'screenshot:response'
screenshotResponse(requestId, success) ==
  /\ shotResponses < MaxResponses
  /\ shotResponses' = shotResponses + 1
  /\ IF requestId \notin DOMAIN screenshotRequests
     THEN UNCHANGED <<screenshotRequests, shotTimeouts, shotSettled>>
     ELSE LET pending == screenshotRequests[requestId]
          IN /\ screenshotRequests' = Without(screenshotRequests, {requestId})
             /\ shotTimeouts' = shotTimeouts \ {pending.timeoutId}
             /\ shotSettled' = [shotSettled EXCEPT ![requestId] =
                                  Append(@, IF success THEN "resolved" ELSE "rejected")]
  /\ ShotFrame

\* the request ids a message can carry: those handed out or to be, and one
\* that is no request's
ResponseIds == (1..MaxRequests) \cup {Unknown}

NextS ==
  \/ requestScreenshot
  \/ \E requestId \in shotTimeouts : ScreenshotTimeout(requestId)
  \/ \E requestId \in ResponseIds, success \in BOOLEAN : screenshotResponse(requestId, success)

ElementIds == (DOMAIN elements) \cup {Unknown}

PageIds == (DOMAIN pages) \cup {Unknown}

Init ==
  /\ EngineInit /\ WriterInit /\ PMInit /\ HistoryInit /\ RegistryInit /\ TimerInit
  /\ ShotInit

Next ==
  \/ \E parentId \in ElementIds, text \in Texts, idx \in InsertIndexes :
       createElement("div", parentId, text, idx)
  \/ \E id \in ElementIds, upd \in Updates : updateElement(id, upd)
  \/ \E id \in ElementIds : deleteElement(id)
  \/ \E id \in ElementIds, newParentId \in ElementIds, idx \in MoveIndexes :
       moveElement(id, newParentId, idx)
  \/ \E parentId \in ElementIds, defs \in ElementDefs : createElementTree(parentId, defs)
  \/ \E name \in PageNames : createPage(name)
  \/ \E pageId \in PageIds, name \in PageNames : clonePage(pageId, name)
  \/ \E pageId \in PageIds : deletePage(pageId)
  \/ \E pageId \in PageIds, name \in PageNames : renamePage(pageId, name)
  \/ \E pageId \in PageIds : setActivePage(pageId)
  \/ \E selector \in Selectors, props \in StyleProps : setStyles(selector, props)
  \/ \E batch \in StyleBatches : batchSetStyles(batch)
  \/ \E selector \in Selectors : deleteStyles(selector)
  \/ \E category \in TokenCategories, key \in TokenKeys, value \in TokenValues :
       setDesignTokens(category, (key :> value))
  \/ \E category \in TokenCategories, key \in TokenKeys \cup {"none"}, value \in TokenValues :
       updateTokenWithPropagation(category, key, value)
  \/ \E designType \in DesignTypes : setDesignType(designType)
  \/ \E call \in ViewportCalls : setViewport(call)

Spec == Init /\ [][Next]_vars

\* the writer of one engine, its timer, saves and waitForFlush calls
SpecW == Init /\ [][NextW]_vars

\* switchProject and createProject calls, mutations, timers and saves
SpecP == Init /\ [][NextP]_vars

\* the calls that publish the full state, among them the restore
SpecR == Init /\ [][NextR]_vars

\* the writer with the history
SpecH == Init /\ [][NextH]_vars

\* the registry of projects
SpecG == Init /\ [][NextG]_vars

\* a timeout that is set expires unless it is cleared: the event loop runs
SpecT == Init /\ [][NextT]_vars /\ WF_vars(\E t \in tTimeouts : Expires(t))

(***************************************************************************)
(* SpecK: updateTokenWithPropagation on documents whose style rules and    *)
(* colour token were set by earlier setStyles and setDesignTokens calls    *)
(***************************************************************************)
\* "#fff", "#ffff", "#fff #fff" and "fff"
KStyleValues ==
  { <<"#", "f", "f", "f">>, <<"#", "f", "f", "f", "f">>,
    <<"#", "f", "f", "f", " ", "#", "f", "f", "f">>, <<"f", "f", "f">> }

\* "#fff", "#000", "fff" and "$&"
KTokenValues ==
  { <<"#", "f", "f", "f">>, <<"#", "0", "0", "0">>, <<"f", "f", "f">>, <<"$", "&">> }

KSelectors == {".hero", ".card"}

\* the rules setStyles left: a colour for each selector, beside the default rule
KStyles == { DefaultStyles @@ [sel \in KSelectors |-> [color |-> rule[sel]]] :
               rule \in [KSelectors -> KStyleValues] }

\* the tokens setDesignTokens left: colors.bg set or not
KTokens ==
  {DefaultTokens} \cup { [DefaultTokens EXCEPT !.colors = ("bg" :> v)] : v \in KTokenValues }

InitK ==
  /\ project = DefaultProject
  /\ pages = (DefaultPageId :> [id |-> DefaultPageId, name |-> "Home", rootId |-> DefaultRootId,
                               styles |-> EmptyMap])
  /\ elements = (DefaultRootId :> RootElement(DefaultRootId, DefaultPageId))
  /\ styles \in KStyles
  /\ designTokens \in KTokens
  /\ dirty = CleanDirty
  /\ nextId = 3
  /\ last = [op |-> "init", result |-> "ok", deltas |-> <<>>]
  /\ nops = 0
  /\ edisk = WriteSplitFiles(project, pages, elements, styles, designTokens)
  /\ WriterInit /\ PMInit /\ HistoryInit /\ RegistryInit /\ TimerInit /\ ShotInit

NextK ==
  \E key \in {"bg", "none"}, newValue \in KTokenValues :
    updateTokenWithPropagation("colors", key, newValue)

SpecK == InitK /\ [][NextK]_vars

(***************************************************************************)
(* SpecF: the engine's calls and save(), run to its end with no call       *)
(* between its start and its _clearDirty()                                 *)
(***************************************************************************)
\* the page files save() writes: the dirty pages that are still pages
WrittenPages == dirty.pages \cap DOMAIN pages

\* the page files save() unlinks: those of the deleted pages that exist
UnlinkedPages == dirty.deletedPages \cap DOMAIN edisk.pages

save ==
  /\ isDirty(dirty)
  /\ edisk' =
       [project |-> IF dirty.project THEN ProjectData(project, designTokens)
                    ELSE edisk.project,
        styles |-> IF dirty.styles THEN styles ELSE edisk.styles,
        pages |-> [p \in ((DOMAIN edisk.pages) \ UnlinkedPages) \cup WrittenPages |->
                     IF p \in WrittenPages THEN PageData(pages, elements, p)
                     ELSE edisk.pages[p]]]
  /\ dirty' = CleanDirty
  /\ UNCHANGED <<project, pages, elements, styles, designTokens, nextId, last, nops>>
  /\ UNCHANGED <<writerVars, pmVars, histVars, regVars, timerVars, shotVars>>

\* the calls on ids that exist, one input each, a save() between any two of them
NextF ==
  \/ \E parentId \in DOMAIN elements : createElement("div", parentId, "\\u0041", NoIndex)
  \/ \E id \in DOMAIN elements :
       updateElement(id, [attributes |-> [alt |-> "x"], textContent |-> "\\u0041"])
  \/ \E id \in DOMAIN elements : deleteElement(id)
  \/ \E id \in DOMAIN elements, newParentId \in DOMAIN elements :
       moveElement(id, newParentId, NoIndex)
  \/ \E parentId \in DOMAIN elements :
       createElementTree(parentId, <<[tag |-> "ul", children |-> <<LeafDef>>]>>)
  \/ createPage("About")
  \/ \E pageId \in DOMAIN pages : clonePage(pageId, "About")
  \/ \E pageId \in DOMAIN pages : deletePage(pageId)
  \/ \E pageId \in DOMAIN pages : renamePage(pageId, "About")
  \/ \E pageId \in DOMAIN pages : setActivePage(pageId)
  \/ setStyles(".hero", [color |-> <<"#", "f">>])
  \/ batchSetStyles(<<[selector |-> ".hero", properties |-> [background |-> <<"#", "f", "f">>]]>>)
  \/ \E selector \in Selectors : deleteStyles(selector)
  \/ setDesignTokens("colors", ("bg" :> <<"#", "f">>))
  \/ updateTokenWithPropagation("colors", "bg", <<"#", "0">>)
  \/ setDesignType("mobile-app")
  \/ setViewport([device |-> "mobile", width |-> NoSize, height |-> NoSize])
  \/ save

SpecF == Init /\ [][NextF]_vars

(***************************************************************************)
(* SpecL: the engine's tree operations on a project that init() loaded     *)
(* from its split files: the default page holds a list and its item        *)
(***************************************************************************)
\* the elements of the loaded project: root-1 > ul (3) > li (4)
LoadedElements ==
  (DefaultRootId :> [RootElement(DefaultRootId, DefaultPageId) EXCEPT !.children = <<3>>])
    @@ (3 :> [NewElement(3, "ul", <<>>, EmptyMap, NullText, DefaultRootId, DefaultPageId)
                EXCEPT !.children = <<4>>])
    @@ (4 :> NewElement(4, "li", <<>>, EmptyMap, NullText, 3, DefaultPageId))

InitL ==
  /\ project = DefaultProject
  /\ pages = (DefaultPageId :> [id |-> DefaultPageId, name |-> "Home", rootId |-> DefaultRootId,
                               styles |-> EmptyMap])
  /\ elements = LoadedElements
  /\ styles = DefaultStyles
  /\ designTokens = DefaultTokens
  /\ dirty = CleanDirty
  /\ nextId = 5
  /\ last = [op |-> "init", result |-> "ok", deltas |-> <<>>]
  /\ nops = 0
  /\ edisk = WriteSplitFiles(project, pages, elements, styles, designTokens)
  /\ WriterInit /\ PMInit /\ HistoryInit /\ RegistryInit /\ TimerInit /\ ShotInit

NextL ==
  \/ \E id \in ElementIds : deleteElement(id)
  \/ \E id \in ElementIds, newParentId \in ElementIds, idx \in MoveIndexes :
       moveElement(id, newParentId, idx)
  \/ \E pageId \in PageIds, name \in PageNames : clonePage(pageId, name)

\* the screenshot requests; a timeout that is set expires unless it is cleared
SpecS == Init /\ [][NextS]_vars /\ WF_vars(\E requestId \in shotTimeouts : ScreenshotTimeout(requestId))

\* the registry with createProject and switchProject calls only
NextN ==
  \/ \E switchTo \in BOOLEAN : createProjectCall(<<"A">>, switchTo)
  \/ \E c \in DOMAIN gcalls, saving \in BOOLEAN : MkdirDone(c, saving)
  \/ \E c \in DOMAIN gcalls : SavedOnly(c)
  \/ \E projectId \in GIds(greg) \cup {Unknown}, saving \in BOOLEAN :
       switchProjectCall(projectId, saving)
  \/ \E c \in DOMAIN gcalls : FlushDone(c)
  \/ \E c \in DOMAIN gcalls : RegistryWritten(c)
  \/ \E c \in DOMAIN gcalls : EngineLoaded(c)
  \/ \E c \in DOMAIN gcalls : HistoryReady(c)

SpecN == Init /\ [][NextN]_vars

\* the writer of one engine on a file system whose writes can fail
NextE ==
  \/ NextW
  \/ \E s \in DOMAIN saves : \E op \in saves[s].pending : WriteFails(s, op)

SpecE == Init /\ [][NextE]_vars

SpecL == InitL /\ [][NextL]_vars

(***************************************************************************)
(* SpecD: the writer with save_revision and get_diff on git                *)
(***************************************************************************)
\* the hashes get_diff is called with: none, a commit, no commit
DiffHashes == (DOMAIN commits) \cup {Null, Unknown}

NextD ==
  \/ EditProject
  \/ EditStyles
  \/ \E p \in DOMAIN wmem.pages : EditPage(p)
  \/ AddPage
  \/ \E p \in DOMAIN wmem.pages : RemovePage(p)
  \/ TimerFires
  \/ \E s \in DOMAIN saves : \E op \in saves[s].pending : WriteDone(s, op)
  \/ saveRevision
  \/ \E commitHash \in DiffHashes : diffStart(commitHash)
  \/ \E h \in DOMAIN hcalls : GitAdded(h)
  \/ \E h \in DOMAIN hcalls : GitCommitted(h)
  \/ \E h \in DOMAIN hcalls : GitDiffed(h)

SpecD == Init /\ [][NextD]_vars

(***************************************************************************)
(* Properties of the engine (Spec)                                         *)
(***************************************************************************)
\* the ids reachable from the ids of `seen` along children
RECURSIVE Reach(_, _)
Reach(els, seen) ==
  LET more == seen \cup UNION {SeqRange(els[i].children) : i \in seen \cap DOMAIN els}
  IN IF more = seen THEN seen ELSE Reach(els, more)

\* id and its descendants
SubtreeIds(els, id) == Reach(els, {id})

\* following parentId from id reaches root within `fuel` steps
RECURSIVE ReachesRoot(_, _, _, _)
ReachesRoot(els, id, root, fuel) ==
  IF id = root THEN TRUE
  ELSE IF fuel = 0 \/ id \notin DOMAIN els THEN FALSE
  ELSE ReachesRoot(els, els[id].parentId, root, fuel - 1)

DeltaTypes(deltas) == [i \in 1..Len(deltas) |-> deltas[i].type]

\* C1: moveNode(id, newParentId) with newParentId the node itself or one of
\* its descendants fails with InvalidOperation, changes no node and emits
\* no delta.
C1_MoveIntoOwnSubtreeRejected ==
  [][\A id \in DOMAIN elements, newParentId \in DOMAIN elements, idx \in MoveIndexes :
       (moveElement(id, newParentId, idx) /\ newParentId \in SubtreeIds(elements, id))
         => (last'.result = "InvalidOperation" /\ elements' = elements
             /\ last'.deltas = <<>>)]_vars

\* C2: after any sequence of engine operations the nodes form a forest
\* rooted at the pages' roots: from every node, following parentId reaches
\* the root of the node's page.
C2_ForestRootedAtPages ==
  \A id \in DOMAIN elements :
    /\ elements[id].pageId \in DOMAIN pages
    /\ ReachesRoot(elements, id, pages[elements[id].pageId].rootId,
                   Cardinality(DOMAIN elements))

C10_FailedCallChangesNothing ==
  [][last'.result \in {"NotFound", "InvalidOperation"} =>
       /\ UNCHANGED <<project, pages, elements, styles, designTokens, dirty>>
       /\ last'.deltas = <<>>]_vars

C10_Witness ==
  /\ last.result \in {"NotFound", "InvalidOperation"}
  /\ dirty # CleanDirty
  /\ Cardinality(DOMAIN elements) > 1

\* the number of positions of s that hold x
Count(s, x) == Cardinality({i \in 1..Len(s) : s[i] = x})

\* C18: every non-root node's parentId resolves to a node whose children
\* hold the node's id exactly once, and every id in a children list resolves
\* to a node whose parentId is the owner of the list.
C18_ParentChildSymmetry ==
  /\ \A id \in DOMAIN elements :
       elements[id].parentId # Null =>
         /\ elements[id].parentId \in DOMAIN elements
         /\ Count(elements[elements[id].parentId].children, id) = 1
  /\ \A id \in DOMAIN elements :
       \A i \in 1..Len(elements[id].children) :
         /\ elements[id].children[i] \in DOMAIN elements
         /\ elements[elements[id].children[i]].parentId = id

C20_DeleteRemovesSubtree ==
  [][\A id \in DOMAIN elements :
       (deleteElement(id) /\ elements[id].parentId # Null) =>
         LET gone == SubtreeIds(elements, id)
             parentId == elements[id].parentId
         IN /\ last'.result = "ok"
            /\ DOMAIN elements' = (DOMAIN elements) \ gone
            /\ Cardinality(DOMAIN elements') =
                 Cardinality(DOMAIN elements) - Cardinality(gone)
            /\ parentId \in DOMAIN elements'
            /\ Len(elements'[parentId].children) = Len(elements[parentId].children) - 1
            /\ \A other \in (DOMAIN elements') \ {parentId} :
                 elements'[other] = elements[other]
            /\ elements'[parentId] =
                 [elements[parentId] EXCEPT !.children = FilterOut(@, id)]]_vars

\* C13: an observer holding the engine's state that applies the events of a
\* successful mutating call in order holds the engine's state after the
\* call: project metadata, pages, nodes, styles and tokens.
C13_ViewerFollowsEngine ==
  [][last'.result = "ok" =>
       ViewerApplyAll(getStateSnapshot(project, pages, elements, styles, designTokens),
                      last'.deltas)
         = getStateSnapshot(project', pages', elements', styles', designTokens')]_vars

\* the fine-grained deltas among the events
FineGrained(evs) ==
  SelectSeq(evs, LAMBDA ev : ev.type \notin {"design:full", "history:updated"})

\* C14: createElementTree and clonePage each emit exactly one event, a
\* design:full whose payload is the state after the call, and no
\* fine-grained delta; a restore emits no delta and publishes a design:full
\* of the reloaded state and no fine-grained delta.
C14_FullStateEvents ==
  [][/\ (last'.op \in {"createElementTree", "clonePage"} /\ last'.result = "ok") =>
          last'.deltas =
            <<Delta("design:full",
                    getStateSnapshot(project', pages', elements', styles', designTokens'))>>
     /\ (last'.op = "checkout_version" /\ last'.result = "ok") =>
          /\ last'.deltas = <<>>
          /\ FineGrained(last'.broadcast) = <<>>
          /\ \E i \in 1..Len(last'.broadcast) :
               last'.broadcast[i] =
                 Delta("design:full",
                       getStateSnapshot(project', pages', elements', styles', designTokens'))]_vars

C14_Witness ==
  /\ last.op = "checkout_version"
  /\ last.result = "ok"
  /\ nextId > 5
  /\ Cardinality(DOMAIN elements) = 1

\* the ids of the page roots
RootIds(pg) == {pg[p].rootId : p \in DOMAIN pg}

\* every page's root exists, has no parent and is of that page; no other
\* element is without a parent
RootsWellFormed ==
  /\ \A p \in DOMAIN pages :
       /\ pages[p].rootId \in DOMAIN elements
       /\ elements[pages[p].rootId].parentId = Null
       /\ elements[pages[p].rootId].pageId = p
  /\ {id \in DOMAIN elements : elements[id].parentId = Null} = RootIds(pages)

\* the document and the dirty-set are left as they were
DocumentUnchanged ==
  UNCHANGED <<project, pages, elements, styles, designTokens, dirty, nextId>>

EngineKeepsAPage ==
  /\ [](DOMAIN pages # {})
  /\ [][\A pageId \in DOMAIN pages :
          (Cardinality(DOMAIN pages) = 1 /\ last'.op = "deletePage" /\ deletePage(pageId))
            => (last'.result = "InvalidOperation" /\ DocumentUnchanged)]_vars

\* under the engine's calls activePageId is always a page; a deletePage of
\* the active page makes a remaining page active and names it in the delta,
\* a deletePage of another page leaves the active page; setActivePage of an
\* unknown id throws NotFound and changes nothing
EngineKeepsActivePage ==
  /\ [](project.activePageId \in DOMAIN pages)
  /\ [][/\ \A pageId \in DOMAIN pages :
             (last'.op = "deletePage" /\ last'.result = "ok" /\ deletePage(pageId))
               => IF project.activePageId = pageId
                  THEN /\ project'.activePageId \in (DOMAIN pages) \ {pageId}
                       /\ project'.activePageId \in DOMAIN pages'
                       /\ last'.deltas[1].data.newActivePageId = project'.activePageId
                  ELSE project'.activePageId = project.activePageId
          /\ (last'.op = "setActivePage" /\ setActivePage(Unknown))
               => (last'.result = "NotFound" /\ DocumentUnchanged)]_vars

\* C32: a successful createElement with an insertIndex greater than the
\* number of the parent's children, or negative, puts the new element last;
\* with an insertIndex from 0 to that number the new element is at that
\* position (counted from 0); in both cases the other children keep their
\* order.
C32_InsertIndexPlacesTheChild ==
  [][\A parentId \in DOMAIN elements, text \in Texts, idx \in InsertIndexes \ {NoIndex} :
       (last'.op = "createElement" /\ last'.result = "ok"
          /\ createElement("div", parentId, text, idx))
         => LET before == elements[parentId].children
                after == elements'[parentId].children
            IN /\ FilterOut(after, nextId) = before
               /\ Len(after) = Len(before) + 1
               /\ IF idx < 0 \/ idx > Len(before)
                  THEN after[Len(after)] = nextId
                  ELSE after[idx + 1] = nextId]_vars

\* f maps the source page's elements one to one onto the new elements and
\* every new element is its source with the ids mapped and the new page's id
IsCloneMap(f, src, new, pageId) ==
  /\ \A a, b \in src : f[a] = f[b] => a = b
  /\ {f[a] : a \in src} = new
  /\ \A a \in src :
       LET from == elements[a]
           to == elements'[f[a]]
       IN /\ to.id = f[a]
          /\ to.pageId = pageId
          /\ to.tag = from.tag /\ to.classes = from.classes
          /\ to.attributes = from.attributes /\ to.textContent = from.textContent
          /\ IF from.parentId = Null THEN to.parentId = Null
             ELSE from.parentId \in src /\ to.parentId = f[from.parentId]
          /\ Len(to.children) = Len(from.children)
          /\ \A i \in 1..Len(from.children) :
               from.children[i] \in src /\ to.children[i] = f[from.children[i]]

\* C33: a successful clonePage adds one page and, for the elements of the
\* source page, new elements under ids that were not in use, matched one to
\* one with structure, child order, tag, classes, attributes and text kept
\* and the new page's id on each; the new page has the name given, the
\* source's styles and the clone of its root; every page and element there
\* was, and the project with its activePageId, is unchanged.
C33_ClonePageCopiesThePage ==
  [][\A sourcePageId \in DOMAIN pages, newName \in PageNames :
       (last'.op = "clonePage" /\ last'.result = "ok" /\ clonePage(sourcePageId, newName))
         => LET src == {id \in DOMAIN elements : elements[id].pageId = sourcePageId}
                new == (DOMAIN elements') \ DOMAIN elements
                added == (DOMAIN pages') \ DOMAIN pages
            IN /\ Cardinality(added) = 1
               /\ \A pageId \in added :
                    /\ pageId \notin DOMAIN elements
                    /\ pages'[pageId].id = pageId
                    /\ pages'[pageId].name = newName
                    /\ pages'[pageId].styles = pages[sourcePageId].styles
                    /\ \E f \in [src -> new] :
                         /\ IsCloneMap(f, src, new, pageId)
                         /\ pages[sourcePageId].rootId \in src
                         /\ pages'[pageId].rootId = f[pages[sourcePageId].rootId]
               /\ new \cap DOMAIN pages = {}
               /\ \A p \in DOMAIN pages : pages'[p] = pages[p]
               /\ \A id \in DOMAIN elements : elements'[id] = elements[id]
               /\ project' = project]_vars

\* C35: no deleteElement and no moveElement ends with the call stack used up
\* by a recursion that does not end (_deleteRecursive, _updatePageId), and
\* the tree walk of listElements ends on every page
C35_RecursionsEnd ==
  /\ last.result # "RangeError"
  /\ \A p \in DOMAIN pages : buildTreeEnds(elements, pages[p].rootId, {})

\* C36: a writer has at most one save() in progress, and no waitForFlush
\* call returns while a save() is in progress
C36_OneSaveAtATime ==
  /\ [](Cardinality(DOMAIN saves) <= 1)
  /\ [][\A c \in DOMAIN waiters' :
          (/\ waiters'[c].pc = "returned"
           /\ (c \in DOMAIN waiters => waiters[c].pc # "returned"))
            => DOMAIN saves' = {}]_vars

\* the unit of the file operation is marked in the dirty-set
UnitDirty(d, op) ==
  CASE op.kind = "project" -> d.project
    [] op.kind = "styles" -> d.styles
    [] op.kind = "page" -> op.page \in d.pages
    [] op.kind = "unlink" -> op.page \in d.deletedPages

\* the file operation of save s is the first of s to fail
FailsFirst(s, op) ==
  /\ ~saves[s].failed
  /\ \/ WriteFails(s, op)
     \/ (op.kind = "unlink" /\ op.page \notin DOMAIN wdisk.pages /\ WriteDone(s, op))

\* C38: when a file operation of a save fails, the failure clears nothing of
\* the dirty-set, the units the save had still to write are dirty afterwards,
\* the writer's _flushPromise is null, and a flush that starts then writes
\* project.json, styles.json and the files of the pages again that the failed
\* save had still to write
C38_FailedFlushStaysDirty ==
  [][\A s \in DOMAIN saves : \A op \in saves[s].pending :
       (wdisk' = wdisk /\ FailsFirst(s, op))
         => /\ dirty' = dirty
            /\ flushPromise' = NoSave
            /\ \A o \in saves[s].pending :
                 /\ UnitDirty(dirty', o)
                 /\ (o.kind \in {"project", "styles"} \/ (o.kind = "page" /\ wmem.pages[o.page].live))
                      => \E n \in SaveWrites(dirty', wmem', wdisk') :
                           n.kind = o.kind /\ n.page = o.page]_vars

(***************************************************************************)
(* Properties of the screenshot requests (SpecS)                           *)
(***************************************************************************)
\* C40: the promise of a request has at most one resolve or reject call; a
\* request is in the pending map exactly while it has none, and its timeout
\* is set exactly then.  A response for a pending request settles it by its
\* success flag; a response for any other id changes nothing; an expiring
\* timeout rejects its request.  Every request made is settled in the end.
C40_SettledExactlyOnce ==
  /\ [](\A requestId \in DOMAIN shotSettled :
          /\ Len(shotSettled[requestId]) <= 1
          /\ (requestId \in DOMAIN screenshotRequests) <=> (shotSettled[requestId] = <<>>)
          /\ (requestId \in shotTimeouts) <=> (shotSettled[requestId] = <<>>))
  /\ [][/\ \A requestId \in ResponseIds, success \in BOOLEAN :
            (shotResponses' # shotResponses /\ screenshotResponse(requestId, success))
              => IF requestId \in DOMAIN screenshotRequests
                 THEN /\ shotSettled'[requestId] = <<IF success THEN "resolved" ELSE "rejected">>
                      /\ \A other \in (DOMAIN shotSettled) \ {requestId} :
                           shotSettled'[other] = shotSettled[other]
                 ELSE shotSettled' = shotSettled /\ screenshotRequests' = screenshotRequests
        /\ \A requestId \in shotTimeouts :
            (shotResponses' = shotResponses /\ ScreenshotTimeout(requestId))
              => shotSettled'[requestId] = <<"timeout">>]_vars
  /\ \A requestId \in 1..MaxRequests :
       [](requestId \in DOMAIN shotSettled
            => <>(requestId \in DOMAIN shotSettled /\ Len(shotSettled[requestId]) = 1))

\* the first request was resolved by a response, the second rejected by its
\* timeout, and a third response has been handled since
C40_Witness ==
  /\ shotSettled = << <<"resolved">>, <<"timeout">> >>
  /\ shotResponses = 3
  /\ screenshotRequests = <<>>
  /\ shotTimeouts = {}

(***************************************************************************)
(* Properties of get_diff (SpecD)                                          *)
(***************************************************************************)
\* C34: the text a get_diff call returns is non-empty exactly when the files
\* of the directory differ from the checkpoint the call names, or from the
\* latest checkpoint when it names none; a call that names no checkpoint of
\* the history returns the empty text and does not fail
C34_DiffTellsDiskFromCheckpoint ==
  [][\A h \in DOMAIN hcalls :
       (hcalls[h].kind = "diff" /\ hcalls[h].pc # "done" /\ hcalls'[h].pc = "done")
         => LET hash == hcalls[h].hash
            IN IF hash = Null THEN (hcalls'[h].diff # EmptyDiff) <=> (wdisk # HeadCommit)
               ELSE IF hash \in DOMAIN commits
                    THEN (hcalls'[h].diff # EmptyDiff) <=> (wdisk # commits[hash])
               ELSE hcalls'[h].diff = EmptyDiff]_vars

(***************************************************************************)
(* Properties of the history (SpecH)                                       *)
(***************************************************************************)
\* the page, style and project content of two engine states is the same
SameMaps(mem, S) ==
  /\ mem.project = S.project
  /\ mem.styles = S.styles
  /\ LivePages(mem) = LivePages(S)
  /\ \A p \in LivePages(S) : mem.pages[p].stamp = S.pages[p].stamp

\* C15: when a checkout_version of the commit made by a save_revision
\* called at engine state S has reloaded the engine, the engine's project,
\* style and page content is that of S
C15_RestoreReproducesSnapshot ==
  [][\A h \in DOMAIN hcalls :
       Reloaded(h) =>
         \A h0 \in DOMAIN hcalls :
           (hcalls[h0].kind = "save" /\ hcalls[h0].commit = hcalls[h].hash)
             => SameMaps(wmem', hcalls[h0].at)]_vars

\* C16: when GitManager.checkout(hash) completes, the page files of the
\* directory are exactly the page files of that commit
C16_RestoreLeavesNoOrphan ==
  [][\A h \in DOMAIN hcalls :
       GitCleaned(h) => DOMAIN wdisk'.pages = DOMAIN commits[hcalls[h].hash].pages]_vars

\* C22: the engine always holds at least one page, also after a reload
C22_AlwaysAPage == LivePages(wmem) # {}

\* C23: the engine's activePageId is always one of its pages, also after a
\* reload
C23_ActivePageIsAPage == wmem.active \in LivePages(wmem)

\* C17: no file operation of a save() is pending while a git command of a
\* save_revision or checkout_version call is running
C17_NoWriteDuringGit == ~(saves # <<>> /\ \E h \in DOMAIN hcalls : GitRunning(h))

(***************************************************************************)
(* Properties of the registry (SpecG)                                      *)
(***************************************************************************)
\* no createProject, switchProject, deleteProject or renameProject call is
\* in progress
CallsOver ==
  \A c \in DOMAIN gcalls : gcalls[c].pc \in {"done", "threw", "NotFound", "InvalidOperation"}

\* C24: once the calls made have ended, the registry lists at least one
\* project and activeProjectId is the id of a listed project
C24_ActiveProjectListed ==
  CallsOver => (Len(greg.projects) >= 1 /\ greg.activeProjectId \in GIds(greg))

\* C37: once the calls made have ended, the engine the manager holds is the
\* engine of the project registry.activeProjectId names, and the manager has
\* a writer and a delta handler subscribed to that engine
C37_ActiveProjectIsLoaded ==
  CallsOver => (gsm = greg.activeProjectId /\ gwriter /\ ghandler)

\* the step starts no flush, tears nothing down, persists nothing and leaves
\* the registry, the engine, the writer, the delta handler and the other
\* calls as they are
NothingDone ==
  /\ greg' = greg /\ gfile' = gfile /\ gdirs' = gdirs
  /\ gsm' = gsm /\ gwriter' = gwriter /\ ghandler' = ghandler
  /\ SubSeq(gcalls', 1, Len(gcalls)) = gcalls

\* C39: switchProject with the id of the active project returns at once and
\* does nothing; switchProject with an id the registry does not list fails
\* with NotFound at once and does nothing; no step of a createProject call
\* with switchTo off changes activeProjectId, the engine, the writer or the
\* delta handler, and such a call never reaches the end of an activation,
\* where project:switched is emitted
C39_NoOpCallsChangeNothing ==
  [][/\ (Len(gcalls') = Len(gcalls) + 1 /\ gcalls'[Len(gcalls')].kind = "switch")
          => LET call == gcalls'[Len(gcalls')]
             IN /\ call.id = greg.activeProjectId => (call.pc = "done" /\ NothingDone)
                /\ call.id \notin GIds(greg) => (call.pc = "NotFound" /\ NothingDone)
     /\ \A c \in DOMAIN gcalls' :
          (/\ gcalls'[c].kind = "create" /\ ~gcalls'[c].switchTo
           /\ (c \in DOMAIN gcalls => gcalls[c] # gcalls'[c]))
            => /\ gcalls'[c].pc \in {"mkdir", "saveOnly", "tempState", "tempGit", "done"}
               /\ greg'.activeProjectId = greg.activeProjectId
               /\ gsm' = gsm /\ gwriter' = gwriter /\ ghandler' = ghandler]_vars

\* switchProject(1) was called with project 1 active and createProject with
\* switchTo off has run to its end: project 1 is still active and loaded
C39_Witness ==
  /\ Len(gcalls) = 2
  /\ gcalls[1].kind = "switch" /\ gcalls[1].id = 1 /\ gcalls[1].pc = "done"
  /\ gcalls[2].kind = "create" /\ ~gcalls[2].switchTo /\ gcalls[2].pc = "done"
  /\ Len(greg.projects) = 3
  /\ greg.activeProjectId = 1 /\ gsm = 1 /\ gwriter /\ ghandler

\* C25: no two projects of the registry have the same slug
C25_SlugsUnique ==
  \A i, j \in 1..Len(greg.projects) :
    i # j => greg.projects[i].slug # greg.projects[j].slug

(***************************************************************************)
(* Properties of the split files (SpecF)                                   *)
(***************************************************************************)
\* this.state
State ==
  [project |-> project, pages |-> pages, elements |-> elements, styles |-> styles,
   designTokens |-> designTokens]

\* whatever order the page files are listed in, loading the files gives the state
RoundTrips == \A order \in Orders(DOMAIN edisk.pages) : LoadSplitFiles(edisk, order) = State

\* every file holds what save() would write of the state now, but for the
\* files the dirty-set names
InSync ==
  /\ ~dirty.project => edisk.project = ProjectData(project, designTokens)
  /\ ~dirty.styles => edisk.styles = styles
  /\ \A p \in (DOMAIN pages) \ dirty.pages :
       p \in DOMAIN edisk.pages /\ edisk.pages[p] = PageData(pages, elements, p)
  /\ \A p \in (DOMAIN edisk.pages) \ DOMAIN pages : p \in dirty.deletedPages

\* C26: after successful mutations and a save() with no mutation during it,
\* loading the split files gives the project, pages, elements, styles and
\* tokens of the state in memory: the files start in step with the state,
\* every successful call leaves dirty each file whose content it changed
\* (both pages of a move across pages) and each deleted page's file is
\* named for removal, so the save() brings every file up to date.
C26_FlushRoundTrips ==
  /\ InSync
  /\ [][(last'.result = "ok" /\ InSync) => InSync']_vars
  /\ [][(nops' = nops /\ save /\ InSync) => RoundTrips']_vars

\* an element was moved to a parent on another page and save() has run since
C26_Witness ==
  /\ last.op = "moveElement" /\ last.result = "ok"
  /\ dirty = CleanDirty
  /\ RoundTrips
  /\ LET moved == last.deltas[1].data
     IN elements[moved.oldParentId].pageId # elements[moved.newParentId].pageId

(***************************************************************************)
(* Properties of the writer (SpecW)                                        *)
(***************************************************************************)
DiskMatchesMem ==
  /\ wdisk.project = wmem.project
  /\ wdisk.styles = wmem.styles
  /\ DOMAIN wdisk.pages = LivePages(wmem)
  /\ \A p \in LivePages(wmem) : wdisk.pages[p] = wmem.pages[p].stamp

\* nothing is left to happen unless a new mutation or call arrives
Quiescent == timer # "pending" /\ saves = <<>>

\* C3: when a waitForFlush call returns, every unit on disk holds the
\* in-memory content as of the call or later.
C3_WaitForFlushIsDurable ==
  [][\A c \in DOMAIN waiters' :
       (waiters'[c].pc = "returned" /\ (c \notin DOMAIN waiters \/ waiters[c].pc # "returned"))
         => Covers(wdisk', wmem', waiters'[c].at)]_vars

\* C4: once mutations have stopped and the timer and the saves have run
\* out, with no waitForFlush call made, no unit is dirty and the files equal
\* the in-memory state.
C4_DebounceWritesEverything ==
  (ncalls = 0 /\ Quiescent) => (~isDirty(dirty) /\ DiskMatchesMem)

\* the file a file operation is on
UnitOf(op) == IF op.kind \in {"page", "unlink"} THEN <<"page", op.page>> ELSE <<op.kind, Null>>

\* the files of a disk, each with its content; a file that does not exist is absent
DiskUnits(disk) ==
  (<<"project", Null>> :> disk.project) @@ (<<"styles", Null>> :> disk.styles)
    @@ [u \in {<<"page", p>> : p \in DOMAIN disk.pages} |-> disk.pages[u[2]]]

\* the file operation is the last of save s and its Promise.all resolves
Resolves(s, op) ==
  /\ saves[s].pending = {op}
  /\ ~saves[s].failed
  /\ ~(op.kind = "unlink" /\ op.page \notin DOMAIN wdisk.pages)

\* C27: a save that starts has one file operation for each unit that is
\* dirty at that moment and for no other: project.json if the project is
\* dirty, styles.json if the styles are, the file of every dirty page that is
\* still a page, each with the content in memory, and the removal of the file
\* of every deleted page that has one.  Every change of a file is a file
\* operation of a save on that file, so the files of the other units stay as
\* they are.  When every operation of a save has completed, and when a flush
\* finds nothing to write, the dirty-set is empty.
C27_FlushWritesDirtyUnits ==
  /\ [][\A s \in (DOMAIN saves') \ DOMAIN saves :
          LET ops == saves'[s].pending
          IN /\ ([kind |-> "project", page |-> Null, stamp |-> wmem.project] \in ops) <=> dirty.project
             /\ ([kind |-> "styles", page |-> Null, stamp |-> wmem.styles] \in ops) <=> dirty.styles
             /\ \A q \in DOMAIN wmem.pages :
                  /\ ([kind |-> "page", page |-> q, stamp |-> wmem.pages[q].stamp] \in ops)
                       <=> (q \in dirty.pages /\ wmem.pages[q].live)
                  /\ ([kind |-> "unlink", page |-> q, stamp |-> Null] \in ops)
                       <=> (q \in dirty.deletedPages /\ q \in DOMAIN wdisk.pages)
             /\ Cardinality(ops)
                  = Cardinality({k \in {"project", "styles"} : dirty[k]})
                    + Cardinality({q \in dirty.pages : q \in LivePages(wmem)})
                    + Cardinality(dirty.deletedPages \cap DOMAIN wdisk.pages)
             /\ wdisk' = wdisk]_vars
  /\ [][wdisk' # wdisk =>
          \E s \in DOMAIN saves : \E op \in saves[s].pending :
            /\ \A u \in (DOMAIN DiskUnits(wdisk) \cup DOMAIN DiskUnits(wdisk')) \ {UnitOf(op)} :
                 /\ u \in DOMAIN DiskUnits(wdisk) /\ u \in DOMAIN DiskUnits(wdisk')
                 /\ DiskUnits(wdisk')[u] = DiskUnits(wdisk)[u]
            /\ IF op.kind = "unlink" THEN UnitOf(op) \notin DOMAIN DiskUnits(wdisk')
               ELSE /\ UnitOf(op) \in DOMAIN DiskUnits(wdisk')
                    /\ DiskUnits(wdisk')[UnitOf(op)] = op.stamp]_vars
  /\ [][\A s \in DOMAIN saves : \A op \in saves[s].pending :
          (Resolves(s, op) /\ s \notin DOMAIN saves' /\ WriteDone(s, op))
            => dirty' = CleanDirty]_vars
  /\ [][(timer = "pending" /\ isDirty(dirty) /\ saves' = saves /\ TimerFires)
          => dirty' = CleanDirty]_vars

\* two mutations marked project.json and the file of a new page; the save has
\* written those two files and no other, and the dirty-set is empty
C27_Witness ==
  /\ nmut = 2
  /\ wmem.project = 1 /\ wdisk.project = 1
  /\ 2 \in DOMAIN wdisk.pages /\ wdisk.pages[2] = 2
  /\ wdisk.styles = 0 /\ wdisk.pages[DefaultPageId] = 0
  /\ saves = <<>>
  /\ dirty = CleanDirty

(***************************************************************************)
(* Properties of the token propagation (SpecK)                             *)
(***************************************************************************)
TokenIsSet(key) == key \in DOMAIN designTokens.colors

\* C29: a successful updateTokenWithPropagation(category, key, newValue)
\* leaves the token at newValue, and the same call made again, the token
\* being newValue, returns updatedStyles = 0, emits nothing and changes no
\* style, no token and nothing else; on a token that is not set the call
\* fails with NotFound and changes nothing.
C29_SameValueAgainChangesNothing ==
  [][\A key \in {"bg", "none"}, newValue \in KTokenValues :
       (last'.op = "updateTokenWithPropagation"
          /\ updateTokenWithPropagation("colors", key, newValue))
         => /\ TokenIsSet(key)
                 => (last'.result = "ok" /\ designTokens'.colors[key] = newValue)
            /\ (TokenIsSet(key) /\ designTokens.colors[key] = newValue)
                 => /\ last'.updatedStyles = 0
                    /\ last'.deltas = <<>>
                    /\ DocumentUnchanged
            /\ ~TokenIsSet(key)
                 => (last'.result = "NotFound" /\ DocumentUnchanged)]_vars

\* bg went from some value to "#000", which changed .hero's colour, and the
\* same call was made again: it returned 0 and emitted nothing
C29_Witness ==
  /\ nops = 2
  /\ last.op = "updateTokenWithPropagation" /\ last.result = "ok"
  /\ last.deltas = <<>> /\ last.updatedStyles = 0
  /\ designTokens.colors["bg"] = <<"#", "0", "0", "0">>
  /\ styles[".hero"].color = <<"#", "0", "0", "0">>

\* val with every standalone occurrence of old, from position j on, taken
\* from left to right, replaced by the characters of new
RECURSIVE Substituted(_, _, _, _)
Substituted(val, old, new, j) ==
  IF j > Len(val) THEN <<>>
  ELSE IF MatchAt(val, old, j) THEN new \o Substituted(val, old, new, j + Len(old))
  ELSE <<val[j]>> \o Substituted(val, old, new, j + 1)

\* C30: when bg is set and differs from newValue, the call succeeds, every
\* property value of every selector becomes the value with each standalone
\* occurrence of the old token value replaced by newValue (a value without
\* one stays as it is), no selector or property is added or removed, the
\* token becomes newValue and updatedStyles is the number of selectors of
\* which a property value changed.
C30_PropagationReplacesOccurrences ==
  [][\A newValue \in KTokenValues :
       (last'.op = "updateTokenWithPropagation" /\ TokenIsSet("bg")
          /\ designTokens.colors["bg"] # newValue
          /\ updateTokenWithPropagation("colors", "bg", newValue))
         => LET oldValue == designTokens.colors["bg"]
            IN /\ last'.result = "ok"
               /\ DOMAIN styles' = DOMAIN styles
               /\ \A sel \in DOMAIN styles :
                    /\ DOMAIN styles'[sel] = DOMAIN styles[sel]
                    /\ \A p \in DOMAIN styles[sel] :
                         styles'[sel][p] = Substituted(styles[sel][p], oldValue, newValue, 1)
               /\ designTokens' = [designTokens EXCEPT !.colors["bg"] = newValue]
               /\ last'.updatedStyles
                    = Cardinality({sel \in DOMAIN styles : styles'[sel] # styles[sel]})]_vars

\* old occurs in val at position j and is not part of a longer token: no
\* letter, digit or # stands before it and no letter or digit after it
StandaloneAt(val, old, j) ==
  /\ j >= 1 /\ j + Len(old) - 1 <= Len(val)
  /\ \A i \in 1..Len(old) : val[j + i - 1] = old[i]
  /\ ~(j > 1 /\ val[j - 1] \in Alnum \cup {"#"})
  /\ ~(j + Len(old) <= Len(val) /\ val[j + Len(old)] \in Alnum)

HasStandalone(val, old) == \E j \in 1..Len(val) : StandaloneAt(val, old, j)

\* the selectors the call reported in its styles delta
ReportedSelectors(l) ==
  IF Len(l.deltas) = 2 THEN DOMAIN l.deltas[2].data.styles ELSE {}

\* C31: a successful propagation leaves every property value without a
\* standalone occurrence of the old token value as it was, and counts and
\* reports only selectors of which some property value has one.
C31_LongerTokensAreKept ==
  [][\A newValue \in KTokenValues :
       (last'.op = "updateTokenWithPropagation" /\ TokenIsSet("bg")
          /\ designTokens.colors["bg"] # newValue
          /\ updateTokenWithPropagation("colors", "bg", newValue))
         => LET oldValue == designTokens.colors["bg"]
                with == {sel \in DOMAIN styles :
                           \E p \in DOMAIN styles[sel] : HasStandalone(styles[sel][p], oldValue)}
            IN /\ \A sel \in DOMAIN styles : \A p \in DOMAIN styles[sel] :
                    ~HasStandalone(styles[sel][p], oldValue)
                      => styles'[sel][p] = styles[sel][p]
               /\ ReportedSelectors(last') \subseteq with
               /\ last'.updatedStyles = Cardinality(ReportedSelectors(last'))]_vars

\* bg went from "#fff" to "#000": .card's "#fff" followed, .hero's "#ffff"
\* stayed and only one selector was counted
C31_Witness ==
  /\ nops = 1
  /\ last.result = "ok" /\ last.updatedStyles = 1
  /\ designTokens.colors["bg"] = <<"#", "0", "0", "0">>
  /\ styles[".card"].color = <<"#", "0", "0", "0">>
  /\ styles[".hero"].color = <<"#", "f", "f", "f", "f">>

(***************************************************************************)
(* Properties of the timer (SpecT)                                         *)
(***************************************************************************)
\* C28: at most one timeout is ever pending, and it is the one this._timer
\* holds.  A schedule() call leaves exactly the timeout it sets, so the
\* timeouts of the calls before it never expire; an expiry leaves no timeout
\* pending, so schedule() calls with no expiry between them are followed by
\* one run of the timer's _doFlush, and the timeout of the last of them does
\* expire unless it is cleared.  A flush() or waitForFlush() call leaves no
\* timeout pending and this._timer null.
C28_OneTimer ==
  /\ [](Cardinality(tTimeouts) <= 1 /\ tTimeouts \subseteq {tTimer})
  /\ [][tScheduled' # tScheduled => tTimeouts' = {tScheduled'}]_vars
  /\ [][\A t \in tTimeouts : (t \notin tTimeouts' /\ Expires(t)) => tTimeouts' = {}]_vars
  /\ [][Len(tCalls') > Len(tCalls) => (tTimeouts' = {} /\ tTimer' = Null)]_vars
  /\ \A t \in 1..MaxSchedules : (t \in tTimeouts) ~> (t \notin tTimeouts)

\* the third schedule() call in a row, no expiry since the first: one
\* timeout is pending
C28_Witness ==
  /\ tScheduled = 3
  /\ tTimeouts = {3}
  /\ tSaves = {}
  /\ tCalls = <<>>

(***************************************************************************)
(* Properties of the project manager (SpecP)                               *)
(***************************************************************************)
SwitchInProgress ==
  \E p \in DOMAIN procs : procs[p].pc \in {"flushing", "savingRegistry", "loading", "gitInit"}

\* the steps of a switch, in the order the specification gives them
SwitchOrder ==
  <<"flush.begin", "flush.end", "detach", "persist.begin", "persist.end",
    "load.begin", "load.end", "writer", "history.begin", "history.end",
    "subscribe", "switched", "snapshot">>

Rank(ev) == CHOOSE i \in 1..Len(SwitchOrder) : SwitchOrder[i] = ev

InOrder(steps) == \A i, j \in 1..Len(steps) : i < j => Rank(steps[i]) < Rank(steps[j])

\* C5: while a switch is in progress no mutation is applied to any engine
\* and no delta is delivered to observers.
C5_NoMutationDuringSwitch ==
  [][SwitchInProgress =>
       /\ pmut' = pmut
       /\ (Mutate => MutateDeltas = <<>>)]_vars

\* C6: when a switch starts to load the incoming project, the files of the
\* outgoing project hold every mutation the outgoing engine had accepted
\* when the switch began.
C6_OutgoingFlushedBeforeLoad ==
  [][\A p \in DOMAIN procs :
       (procs[p].pc = "savingRegistry" /\ procs'[p].pc = "loading" /\ procs[p].out # Null)
         => pdisk'[engs[procs[p].out].proj] >= procs[p].at]_vars

\* C7: the steps a switch or an activating create performs come in the order
\* flush, detach, persist the registry, load, writer and history store,
\* subscribe, project-switched, full snapshot, each beginning after the one
\* before it has ended; a call that no other call overlaps performs all of
\* them and publishes the snapshot of the project it activated.
C7_SwitchStepsInOrder ==
  /\ \A p \in DOMAIN procs : InOrder(procs[p].steps)
  /\ (Len(procs) = 1 /\ procs[1].switchTo /\ procs[1].pc = "done") =>
       /\ procs[1].steps = SwitchOrder
       /\ Len(procs[1].sent) = 2
       /\ procs[1].sent[1].type = "projects:updated"
       /\ \E i \in DOMAIN procs[1].sent[1].data :
            procs[1].sent[1].data[i] = [id |-> procs[1].target, active |-> TRUE]
       /\ procs[1].sent[2].type = "design:full"
       /\ procs[1].sent[2].data.proj = procs[1].target

C7_Witness ==
  /\ Len(procs) = 1
  /\ procs[1].switchTo
  /\ procs[1].pc = "done"
  /\ procs[1].at > 0
  /\ procs[1].steps = SwitchOrder
  /\ procs[1].sent # <<>>

\* C11: every mutation applied to an engine is broadcast to the observers
\* exactly once, in the step that applies it, so that events arrive in the
\* order of the mutations with none dropped or duplicated.
C11_EveryMutationBroadcastOnce ==
  [][pmut' # pmut =>
       /\ Len(MutateDeltas) = 1
       /\ MutateDeltas[1].data.mem = pmut'
       /\ MutateDeltas[1].data.mem = engs'[smRef].mem]_vars

\* C12: an observer connecting now is sent the full state before any delta,
\* and the mutation applied next reaches it as exactly one delta of the
\* project of its snapshot, carrying a mutation the snapshot does not hold.
C12_SnapshotThenLaterDeltas ==
  [][pmut' # pmut =>
       /\ Len(ConnectSends) = 2
       /\ ConnectSends[2].type = "design:full"
       /\ ConnectSends[2].data.proj # Null
       /\ ConnectSends[2].data.mem < pmut'
       /\ MutateDeltas =
            <<Msg("delta", [proj |-> ConnectSends[2].data.proj, mem |-> pmut'])>>]_vars

\* C8: the snapshot sent to a newly connected observer is taken from a
\* loaded engine, and a mutation is only applied to an engine that has a
\* delta subscription and a writer.
C8_ReachableEngineIsFullyLoaded ==
  [][/\ Len(ConnectSends') = 2
     /\ ConnectSends'[2].data.proj # Null
     /\ pmut' # pmut => (engs[smRef].handlers # {} /\ writerRef # Null)]_vars

====
